---- MODULE Spec2Model ----
(***************************************************************************)
(* Model of the release-note agent's diff pipeline (utils/diff_processor)  *)
(* and guardrail layer (utils/circuit_breaker).                            *)
(*                                                                         *)
(* The specifications share the module's variables:                        *)
(*   SpecTrim  - DiffProcessor._trim_patch applied to bounded patches      *)
(*   SpecProc  - DiffProcessor.process, step by step, on bounded bundles   *)
(*   SpecCB    - CircuitBreaker.allow / record_success / record_failure    *)
(*   SpecCBConc, SpecFlow, SpecRL, SpecRLConc, SpecCache, SpecCacheConc,   *)
(*   SpecKeys, SpecGen, ... - the guardrail, cache, fetch and comment      *)
(*   layers (introduced further down)                                      *)
(* Each specification holds the variables of the others at rest.           *)
(***************************************************************************)
EXTENDS Integers, Sequences, FiniteSets, TLC

VARIABLES
    \* --- _trim_patch -----------------------------------------------------
    t_patch,            \* the raw patch text given to _trim_patch
    t_K,                \* self.context_lines
    t_out,              \* the returned text (None when nothing is kept)
    t_pc,               \* "ready" before the call, "done" after
    \* --- process ---------------------------------------------------------
    bundle,             \* the DiffBundle argument: [files, truncated]
    commits,            \* the commits argument
    dcfg,               \* the DiffProcessor's constructor fields
    processed_files,    \* local processed_files
    chunks,             \* local chunks
    degradation,        \* local degradation
    diagnostics,        \* local diagnostics
    degradation_reason, \* local degradation_reason
    d_pc,               \* position inside process()
    result,             \* the returned ProcessedDiff (None before return)
    prev_result,        \* the ProcessedDiff of the previous call (None if none)
    \* --- circuit breaker -------------------------------------------------
    cb,                 \* the persisted state file of one breaker name
    cbcfg,              \* its CBConfig
    now,                \* int(time.time())
    cb_call,            \* the last operation: [op, ret, from (state before it)]
    probes,             \* allow() calls granted since the breaker left OPEN
    cb_fails,           \* record_failure() calls since the last record_success()
    \* --- circuit breaker, concurrent callers -----------------------------
    cc_proc,            \* per caller: [pc, op, data (what _load returned), ret]
    cc_start,           \* the state file when the overlapping calls began
    \* --- agent command flows ---------------------------------------------
    flow,               \* the running command: [cmd, pc, dry_run]
    fl_allowed,         \* per breaker name: allow() calls that returned True
    fl_recorded,        \* per breaker name: record_success/record_failure calls
    fl_runs,            \* commands started so far
    \* --- rate limiter ----------------------------------------------------
    rl,                 \* the persisted state file of one key: [start, count]
    rlcfg,              \* [max_attempts, window_seconds]
    rl_now,             \* int(time.time())
    rl_ret,             \* the last RateLimitResult (<<>> before any call)
    rl_granted,         \* calls allowed since the current window began
    rl_deadline,        \* t + reset_in_s of the last denial (0 when none)
    rl_waited,          \* the last call came at or after such a deadline
    rl_proc,            \* per concurrent caller: [pc, start, count, now]
    \* --- cache backend ---------------------------------------------------
    c_fs,               \* the two files of one key: [json, md]
    c_put,              \* the writer: [pc, atomic, old (files when put began)]
    c_get,              \* the reader: [pc, j, ret, before, fresh]
    c_map,              \* the pair the last completed put/invalidate left
    \* --- file names ------------------------------------------------------
    k_pair,             \* two keys handed to one store: [store, a, b]
    k_files,            \* the file names computed for them
    \* --- generate: cache and comment --------------------------------------
    g_draft,            \* the normalized draft: [repo, pr_number, head_sha]
    g_args,             \* the command line flags and whether pr_context is set
    g_key,              \* local key (<<>> for None)
    g_pc,               \* position in main() after normalization
    g_ops,              \* cache and comment calls made so far
    \* --- with_retries ------------------------------------------------------
    r_cfg,              \* [max_attempts, retry_on]
    r_attempt,          \* local attempt
    r_hist,             \* how each invocation of fn ended, in order
    r_pc,               \* "loop", "returned" or "raised"
    r_out,              \* what with_retries returned or raised
    \* --- with_watchdog -----------------------------------------------------
    w_max,              \* max_runtime_s
    w_elapsed,          \* perf_counter() - t0 once fn has ended
    w_fn,               \* how fn ended: a value or an exception
    w_ot,               \* how on_timeout ended (None when not called)
    w_log,              \* the calls made, in order
    w_pc,               \* position in with_watchdog
    w_out,              \* what with_watchdog returned or raised
    \* --- DiffFetcher.fetch (src/utils/diff_fetcher.py) ---------------------
    f_args,             \* the arguments of fetch()
    f_initialized,      \* self._initialized
    f_init_reply,       \* what data_source.initialize() did
    f_list_reply,       \* what get_pull_request_files() did
    f_uni_reply,        \* what the unified-diff requests did
    f_files_json,       \* files_json
    f_truncated,        \* truncated
    f_diag,             \* diagnostics
    f_umap,             \* unified_map, as (filename, body) pairs
    f_pc,               \* the position of fetch()
    f_out,              \* what fetch() returned or raised
    \* --- state files of the breaker and the limiter, read back (circuit_breaker.py, rate_limiter.py) ---
    s_file,             \* the content of one state file
    s_now,              \* int(time.time())
    s_call,             \* the last call and how it ended
    s_n,                \* calls made so far
    \* --- PRCommenter.upsert_preview_comment (src/utils/pr_commenter.py) ----
    cm_comments,        \* ids of the comments on the PR that carry the markers
    cm_next,            \* the id GitHub gives the next comment
    cm_persisted,       \* the persisted comment id, 0 for none
    cm_pc,              \* the position of each run
    cm_id,              \* existing_id of each run, 0 for None
    cm_ret,             \* what each run's call returned
    cm_calls,           \* calls started so far
    cm_deleted,         \* comments deleted by users so far
    cm_seen,            \* whether an update failed, whether two runs overlapped
    \* --- racing saves of one state file (circuit_breaker.py _save, rate_limiter.py _write_state, comment_persistence.py save_comment_id) ---
    sv_inodes,          \* the content of each file on disk, by inode
    sv_tmp,             \* the inode the temp name points to, 0 for no such file
    sv_state,           \* the inode the state file name points to
    sv_pc,              \* the position of each writer
    sv_fd,              \* the inode each writer holds open, 0 for none
    sv_read,            \* what the last read of the state file returned
    \* --- generate: repeated runs on one cache entry (agents/release_notes_agent.py, lines 375-438) ---
    gc_fs,              \* the two cache files of the key: [json, md]
    gc_run,             \* the running generate command: [args, draft, key, pc, ops, out, cached]
    gc_runs             \* generate commands started so far

trimVars == <<t_patch, t_K, t_out, t_pc>>
procVars == <<bundle, commits, dcfg, processed_files, chunks, degradation,
              diagnostics, degradation_reason, d_pc, result, prev_result>>
cbVars   == <<cb, cbcfg, now, cb_call, probes, cb_fails>>
ccVars   == <<cc_proc, cc_start>>
flowVars == <<flow, fl_allowed, fl_recorded, fl_runs>>
rlVars   == <<rl, rlcfg, rl_now, rl_ret, rl_granted, rl_deadline, rl_waited,
              rl_proc>>
cacheVars == <<c_fs, c_put, c_get, c_map>>
keyVars  == <<k_pair, k_files>>
genVars  == <<g_draft, g_args, g_key, g_pc, g_ops>>
retryVars == <<r_cfg, r_attempt, r_hist, r_pc, r_out>>
wdVars == <<w_max, w_elapsed, w_fn, w_ot, w_log, w_pc, w_out>>
fetchVars == <<f_args, f_initialized, f_init_reply, f_list_reply, f_uni_reply, f_files_json, f_truncated, f_diag, f_umap, f_pc, f_out>>
sfVars == <<s_file, s_now, s_call, s_n>>
cmVars == <<cm_comments, cm_next, cm_persisted, cm_pc, cm_id, cm_ret, cm_calls, cm_deleted, cm_seen>>
svVars == <<sv_inodes, sv_tmp, sv_state, sv_pc, sv_fd, sv_read>>
gcVars == <<gc_fs, gc_run, gc_runs>>
extVars  == <<genVars, retryVars, wdVars, fetchVars, sfVars, cmVars, svVars, gcVars>>
svcVars  == <<ccVars, flowVars, rlVars, cacheVars, keyVars, extVars>>
vars     == <<trimVars, procVars, cbVars, svcVars>>

None == "None"

(***************************************************************************)
(* Bounds of the model.                                                    *)
(***************************************************************************)
MaxPatchLines == 4      \* lines of a patch drawn for _trim_patch
MaxK          == 2      \* largest context width drawn for _trim_patch
MaxFiles      == 3      \* files of a bundle
MaxCommits    == 2      \* commits handed to process()
MaxTime       == 5      \* last clock value of the breaker's runs
MaxFailures   == 4      \* cap on the breaker's failure counter
MaxThreshold  == 3      \* largest failure_threshold drawn
MaxRecovery   == 2      \* largest recovery_time_s drawn
MaxHalfOpen   == 2      \* largest half_open_max_calls drawn

Min(a, b) == IF a <= b THEN a ELSE b
Max(a, b) == IF a >= b THEN a ELSE b

(***************************************************************************)
(* Text helpers: Python's str.startswith, str.splitlines and "\n".join.    *)
(***************************************************************************)
StartsWith(s, p) == Len(s) >= Len(p) /\ SubSeq(s, 1, Len(p)) = p

\* the position of the first "\n" of s at or after i, Len(s) + 1 if none
NextNewline(s, i) ==
    LET nl == {j \in i..Len(s) : SubSeq(s, j, j) = "\n"} IN
    IF nl = {} THEN Len(s) + 1 ELSE CHOOSE j \in nl : \A k \in nl : j <= k

RECURSIVE SplitFrom(_, _)
\* the lines of s from position i on
SplitFrom(s, i) ==
    IF i > Len(s) THEN <<>>
    ELSE LET j == NextNewline(s, i) IN <<SubSeq(s, i, j - 1)>> \o SplitFrom(s, j + 1)

\* s.splitlines(), for text whose only line break is "\n"
SplitLines(s) == SplitFrom(s, 1)

RECURSIVE JoinLines(_)
JoinLines(ls) ==
    IF Len(ls) = 0 THEN ""
    ELSE IF Len(ls) = 1 THEN ls[1]
    ELSE ls[1] \o "\n" \o JoinLines(Tail(ls))

(***************************************************************************)
(* DiffProcessor._trim_hunk_block and _trim_patch.                         *)
(***************************************************************************)
\* line 284: a change line starts with + or - and with neither +++ nor ---
IsChangeLine(l) ==
    /\ StartsWith(l, "+") \/ StartsWith(l, "-")
    /\ ~StartsWith(l, "+++")
    /\ ~StartsWith(l, "---")

ChangeIdx(block) == {i \in 1..Len(block) : IsChangeLine(block[i])}

\* lines 291-301: maximal runs <<a, b>> of consecutive change indices
Runs(block) ==
    LET ci == ChangeIdx(block) IN
    {r \in ci \X ci :
        /\ r[1] <= r[2]
        /\ \A t \in r[1]..r[2] : t \in ci
        /\ (r[1] - 1) \notin ci
        /\ (r[2] + 1) \notin ci}

\* lines 302-310: the run, K lines before it and K lines after it
KeepOfRun(block, K, a, b) ==
    (a..b) \cup (Max(1, a - K)..(a - 1)) \cup ((b + 1)..Min(Len(block), b + K))

Keep(block, K) == UNION {KeepOfRun(block, K, r[1], r[2]) : r \in Runs(block)}

RECURSIVE EmitKept(_, _, _)
\* lines 312-318: the kept lines of block from index i on, in order
EmitKept(block, keep, i) ==
    IF i > Len(block) THEN <<>>
    ELSE (IF i \in keep THEN <<block[i]>> ELSE <<>>) \o EmitKept(block, keep, i + 1)

TrimHunkBlock(block, K) ==
    IF ChangeIdx(block) = {}
    THEN SubSeq(block, 1, Min(K, Len(block)))
    ELSE EmitKept(block, Keep(block, K), 1)

RECURSIVE NextHunk(_, _)
\* lines 269-273: the first index j >= i of a line starting with @@, or Len + 1
NextHunk(lines, j) ==
    IF j > Len(lines) \/ StartsWith(lines[j], "@@") THEN j
    ELSE NextHunk(lines, j + 1)

RECURSIVE TrimLines(_, _, _)
\* lines 263-279: the loop of _trim_patch from index i on
TrimLines(lines, i, K) ==
    IF i > Len(lines) THEN <<>>
    ELSE IF StartsWith(lines[i], "@@")
         THEN LET j == NextHunk(lines, i + 1) IN
              <<"@@">> \o TrimHunkBlock(SubSeq(lines, i + 1, j - 1), K)
                       \o TrimLines(lines, j, K)
         ELSE TrimLines(lines, i + 1, K)

TrimPatch(patch, K) ==
    IF patch = None \/ patch = "" THEN None
    ELSE LET out == TrimLines(SplitLines(patch), 1, K) IN
         IF out = <<>> THEN None ELSE JoinLines(out)

(***************************************************************************)
(* DiffProcessor: helpers of process().                                    *)
(***************************************************************************)
\* the code point of a character (those the modelled paths are made of)
CodePoint(c) ==
    CASE c = "." -> 46  [] c = "/" -> 47  [] c = "M" -> 77
      [] c = "a" -> 97  [] c = "b" -> 98  [] c = "c" -> 99  [] c = "d" -> 100
      [] c = "e" -> 101 [] c = "f" -> 102 [] c = "g" -> 103 [] c = "i" -> 105 [] c = "k" -> 107
      [] c = "l" -> 108 [] c = "m" -> 109 [] c = "n" -> 110 [] c = "o" -> 111
      [] c = "p" -> 112 [] c = "r" -> 114 [] c = "s" -> 115 [] c = "y" -> 121

RECURSIVE StrLess(_, _)
\* Python's s < t on str: lexicographic by code point
StrLess(s, t) ==
    IF Len(t) = 0 THEN FALSE
    ELSE IF Len(s) = 0 THEN TRUE
    ELSE IF Head(s) = Head(t) THEN StrLess(Tail(s), Tail(t))
    ELSE CodePoint(Head(s)) < CodePoint(Head(t))

\* path.split("/")[0]: the text before the first "/" of path
FirstSegment(path) ==
    LET sl == {j \in 1..Len(path) : SubSeq(path, j, j) = "/"} IN
    IF sl = {} THEN path
    ELSE SubSeq(path, 1, (CHOOSE j \in sl : \A k \in sl : j <= k) - 1)

group_by_dir_depth == 1

\* "/".join(parts[:depth]) with depth = max(1, group_by_dir_depth) = 1
top_dir(path) == FirstSegment(path)

\* type_order.get(pf.change_type, 999)
type_order(t) ==
    CASE t = "code" -> 0 [] t = "config" -> 1 [] t = "data" -> 2
      [] t = "docs" -> 3 [] t = "tests" -> 4 [] OTHER -> 999

\* key_fn with the full path left out of the key
key_fn_NoPath(pf) ==
    << (IF pf.is_binary THEN 0 ELSE 1), type_order(pf.change_type),
       top_dir(pf.path), "" >>

\* key_fn(pf) of _group_and_order
key_fn(pf) ==
    << (IF pf.is_binary THEN 0 ELSE 1), type_order(pf.change_type),
       top_dir(pf.path), pf.path >>

\* Python's tuple comparison k1 < k2 on two keys of key_fn
KeyLess(k1, k2) ==
    \/ k1[1] < k2[1]
    \/ k1[1] = k2[1] /\ k1[2] < k2[2]
    \/ k1[1] = k2[1] /\ k1[2] = k2[2] /\ StrLess(k1[3], k2[3])
    \/ k1[1] = k2[1] /\ k1[2] = k2[2] /\ k1[3] = k2[3] /\ StrLess(k1[4], k2[4])

RECURSIVE InsertStable(_, _)
\* x placed after every element of the sorted list whose key is not greater
InsertStable(sorted, x) ==
    IF Len(sorted) = 0 THEN <<x>>
    ELSE IF KeyLess(key_fn(x), key_fn(Head(sorted))) THEN <<x>> \o sorted
    ELSE <<Head(sorted)>> \o InsertStable(Tail(sorted), x)

RECURSIVE SortedStable(_)
\* sorted(files, key=key_fn): a stable sort
SortedStable(files) ==
    IF Len(files) = 0 THEN <<>>
    ELSE InsertStable(SortedStable(SubSeq(files, 1, Len(files) - 1)), files[Len(files)])

GroupAndOrder(files) == SortedStable(files)

\* the estimate rounded down
EstimateTokens_Floor(text) ==
    IF text = None \/ text = "" THEN 0
    ELSE Len(text) \div Max(1, dcfg.token_chars_per_token)

\* math.ceil(len(text) / max(1, token_chars_per_token)), 0 for no text
EstimateTokens(text) ==
    IF text = None \/ text = "" THEN 0
    ELSE LET c == Max(1, dcfg.token_chars_per_token) IN (Len(text) + c - 1) \div c

\* len(re.findall(r"^@@", patch, flags=re.MULTILINE))
CountHunksFromPatch(patch) ==
    IF patch = None \/ patch = "" THEN 0
    ELSE LET ls == SplitLines(patch) IN
         Cardinality({i \in 1..Len(ls) : StartsWith(ls[i], "@@")})

WordChars == {"a", "b", "c", "d", "e", "f", "g", "h", "i", "j", "k", "l", "m",
              "n", "o", "p", "q", "r", "s", "t", "u", "v", "w", "x", "y", "z",
              "0", "1", "2", "3", "4", "5", "6", "7", "8", "9", "_"}

\* re.search(w, p) for a literal w
Contains(p, w) == \E i \in 1..(Len(p) - Len(w) + 1) : SubSeq(p, i, i + Len(w) - 1) = w

\* re.search(r"\bw\b", p) for a word w
ContainsWord(p, w) ==
    \E i \in 1..(Len(p) - Len(w) + 1) :
        /\ SubSeq(p, i, i + Len(w) - 1) = w
        /\ i = 1 \/ SubSeq(p, i - 1, i - 1) \notin WordChars
        /\ i + Len(w) > Len(p) \/ SubSeq(p, i + Len(w), i + Len(w)) \notin WordChars

SummaryMaxLen == 400

\* _summarize_file(f, hunk_count)
SummarizeFile(f, hunk_count) ==
    LET head == IF f.status = "renamed" /\ f.previous_filename # None
                   /\ f.previous_filename # ""
                THEN "renamed from " \o f.previous_filename \o " to " \o f.filename \o "."
                ELSE f.status \o " " \o f.change_type \o "."
        counts == ToString(hunk_count) \o " hunks (+" \o ToString(f.additions)
                  \o "/-" \o ToString(f.deletions) \o ")."
        scan == f.patch # None /\ f.patch # "" /\ ~f.is_binary
        h1 == scan /\ (\/ ContainsWord(f.patch, "class")
                       \/ ContainsWord(f.patch, "interface")
                       \/ ContainsWord(f.patch, "public")
                       \/ ContainsWord(f.patch, "def"))
        h2 == scan /\ (\/ ContainsWord(f.patch, "deprecated")
                       \/ Contains(f.patch, "@Api")
                       \/ Contains(f.patch, "schema")
                       \/ Contains(f.patch, "import ")
                       \/ Contains(f.patch, "version"))
        hints == IF h1 /\ h2 THEN " Touches classes/functions and api/schema/imports."
                 ELSE IF h1 THEN " Touches classes/functions."
                 ELSE IF h2 THEN " Touches api/schema/imports."
                 ELSE ""
        text == head \o " " \o counts \o hints
    IN SubSeq(text, 1, Min(SummaryMaxLen, Len(text)))

\* _to_processed_file(f)
ToProcessedFile(f) ==
    LET trimmed == IF ~f.is_binary /\ f.patch # None /\ f.patch # ""
                   THEN TrimPatch(f.patch, dcfg.context_lines) ELSE None
        hunk_count == IF trimmed # None THEN CountHunksFromPatch(trimmed)
                      ELSE IF f.hunk_count = <<>> THEN 0 ELSE f.hunk_count[1]
        summary == SummarizeFile(f, hunk_count)
    IN [path |-> f.filename, status |-> f.status,
        previous_path |-> f.previous_filename, change_type |-> f.change_type,
        is_binary |-> f.is_binary, additions |-> f.additions,
        deletions |-> f.deletions, hunk_count |-> hunk_count,
        summary |-> summary, patch_trimmed |-> trimmed,
        tokens_est |-> EstimateTokens(IF trimmed # None THEN trimmed ELSE summary)]

\* flush(idx) with the emptiness test off by one: a single file is not flushed
Flush_SkipsSingle(acc, current, tokens, idx) ==
    IF Len(current) <= 1 THEN acc
    ELSE Append(acc, [idx |-> idx, files |-> current, files_count |-> Len(current),
                      tokens_est |-> tokens, diagnostics |-> <<>>])

\* flush(idx) of _build_chunks: nothing is appended when current is empty
Flush(acc, current, tokens, idx) ==
    IF Len(current) = 0 THEN acc
    ELSE Append(acc, [idx |-> idx, files |-> current, files_count |-> Len(current),
                      tokens_est |-> tokens, diagnostics |-> <<>>])

\* need_flush with the file-count test off by one
NeedFlush_CountOffByOne(current, tokens, pf_tokens) ==
    \/ Len(current) > dcfg.max_files_per_chunk
    \/ tokens + pf_tokens > dcfg.soft_chunk_budget

\* need_flush of _build_chunks
NeedFlush(current, tokens, pf_tokens) ==
    \/ Len(current) >= dcfg.max_files_per_chunk
    \/ tokens + pf_tokens > dcfg.soft_chunk_budget

\* the idx of the chunk opened after flush(idx)
NextIdx(idx) == idx + 1

RECURSIVE BuildFrom(_, _, _, _, _, _)
\* the loop of _build_chunks from file i on, and the final flush
BuildFrom(files, i, acc, current, tokens, idx) ==
    IF i > Len(files) THEN Flush(acc, current, tokens, idx)
    ELSE LET pf == files[i] IN
         IF NeedFlush(current, tokens, pf.tokens_est)
         THEN BuildFrom(files, i + 1, Flush(acc, current, tokens, idx),
                        <<pf>>, pf.tokens_est, NextIdx(idx))
         ELSE BuildFrom(files, i + 1, acc, Append(current, pf),
                        tokens + pf.tokens_est, idx)

\* lines 252-254: the diagnostic of a chunk over the hard cap
CapDiagnostics(ch) ==
    IF ch.tokens_est > dcfg.max_tokens_per_chunk
    THEN Append(ch.diagnostics, "hard token cap exceeded")
    ELSE ch.diagnostics

\* _build_chunks(files)
BuildChunks(files) ==
    LET built == BuildFrom(files, 1, <<>>, <<>>, 0, 0) IN
    [i \in 1..Len(built) |-> [built[i] EXCEPT !.diagnostics = CapDiagnostics(built[i])]]

\* over_chunks with the limit off by one
OverChunks_OffByOne(chs) == Len(chs) > dcfg.max_chunks + 1

\* over_budget measured against the soft budget
OverBudget_Soft(chs) == \E i \in 1..Len(chs) : chs[i].tokens_est > dcfg.soft_chunk_budget

\* over_chunks and over_budget of process()
OverChunks(chs) == Len(chs) > dcfg.max_chunks
OverBudget(chs) == \E i \in 1..Len(chs) : chs[i].tokens_est > dcfg.max_tokens_per_chunk

\* the reason with the budget test taking precedence
FirstReason_BudgetFirst(over_budget, over_chunks) ==
    IF over_budget THEN "budget" ELSE "chunks"

\* line 117: "budget" if over_budget and not over_chunks else "chunks"
FirstReason(over_budget, over_chunks) ==
    IF over_budget /\ ~over_chunks THEN "budget" ELSE "chunks"

\* lines 120-122: the patch dropped, the estimate taken from the summary
DropPatch(pf) ==
    [pf EXCEPT !.patch_trimmed = None, !.tokens_est = EstimateTokens(pf.summary)]

RECURSIVE SumTokens(_)
SumTokens(chs) == IF Len(chs) = 0 THEN 0 ELSE Head(chs).tokens_est + SumTokens(Tail(chs))

\* c.raw_message.split("\n")[0]
FirstLine(text) == SubSeq(text, 1, NextNewline(text, 1) - 1)

CommitsSummaryCap == 20
ShaShortLen == 8

\* the CommitSummary of one commit, lines 148-152
CommitSummaryOf(c) ==
    [sha_short |-> SubSeq(c.sha, 1, Min(ShaShortLen, Len(c.sha))),
     author_login |-> c.author_login,
     message_first_line |->
        IF c.message # "" THEN c.message
        ELSE IF c.raw_message # None /\ c.raw_message # ""
             THEN FirstLine(c.raw_message) ELSE ""]


(***************************************************************************)
(* Values the variables of a component hold while it is not running.       *)
(***************************************************************************)
TrimIdle ==
    /\ t_patch = None /\ t_K = 0 /\ t_out = None /\ t_pc = "idle"

ProcIdle ==
    /\ bundle = [files |-> <<>>, truncated |-> FALSE]
    /\ commits = <<>>
    /\ dcfg = <<>>
    /\ processed_files = <<>>
    /\ chunks = <<>>
    /\ degradation = "full"
    /\ diagnostics = <<>>
    /\ degradation_reason = None
    /\ d_pc = "idle"
    /\ result = <<>>
    /\ prev_result = <<>>

CBIdle ==
    /\ cb = <<>> /\ cbcfg = <<>> /\ now = 0 /\ cb_call = <<>>
    /\ probes = 0 /\ cb_fails = 0

CCIdle == cc_proc = <<>> /\ cc_start = <<>>

FlowIdle == flow = <<>> /\ fl_allowed = <<>> /\ fl_recorded = <<>> /\ fl_runs = 0

RLIdle ==
    /\ rl = <<>> /\ rlcfg = <<>> /\ rl_now = 0 /\ rl_ret = <<>>
    /\ rl_granted = 0 /\ rl_deadline = 0 /\ rl_waited = FALSE /\ rl_proc = <<>>

CacheIdle == c_fs = <<>> /\ c_put = <<>> /\ c_get = <<>> /\ c_map = <<>>

KeyIdle == k_pair = <<>> /\ k_files = <<>>

GenIdle == g_draft = <<>> /\ g_args = <<>> /\ g_key = <<>> /\ g_pc = "idle" /\ g_ops = {}

RetryIdle == r_cfg = <<>> /\ r_attempt = 0 /\ r_hist = <<>> /\ r_pc = "idle" /\ r_out = None

WDIdle == w_max = 0 /\ w_elapsed = 0 /\ w_fn = None /\ w_ot = None /\ w_log = <<>> /\ w_pc = "idle" /\ w_out = None

FetchIdle == f_args = <<>> /\ f_initialized = FALSE /\ f_init_reply = None /\ f_list_reply = <<>> /\ f_uni_reply = <<>> /\ f_files_json = <<>> /\ f_truncated = FALSE /\ f_diag = <<>> /\ f_umap = <<>> /\ f_pc = "idle" /\ f_out = <<>>

SFIdle == s_file = <<>> /\ s_now = 0 /\ s_call = <<>> /\ s_n = 0

CmIdle == cm_comments = {} /\ cm_next = 0 /\ cm_persisted = 0 /\ cm_pc = <<>> /\ cm_id = <<>> /\ cm_ret = <<>> /\ cm_calls = 0 /\ cm_deleted = 0 /\ cm_seen = <<>>

SvIdle == sv_inodes = <<>> /\ sv_tmp = 0 /\ sv_state = 0 /\ sv_pc = <<>> /\ sv_fd = <<>> /\ sv_read = None

GcIdle == gc_fs = <<>> /\ gc_run = <<>> /\ gc_runs = 0

ExtIdle == GenIdle /\ RetryIdle /\ WDIdle /\ FetchIdle /\ SFIdle /\ CmIdle /\ SvIdle /\ GcIdle

\* what a specification of one of these layers leaves at rest
coreVars == <<trimVars, procVars, cbVars, ccVars, flowVars, rlVars, cacheVars, keyVars>>

CoreIdle ==
    /\ TrimIdle /\ ProcIdle /\ CBIdle
    /\ CCIdle /\ FlowIdle /\ RLIdle /\ CacheIdle /\ KeyIdle

GenRest == <<coreVars, retryVars, wdVars, fetchVars, sfVars, cmVars, svVars, gcVars>>

GenAlone == CoreIdle /\ RetryIdle /\ WDIdle /\ FetchIdle /\ SFIdle /\ CmIdle /\ SvIdle /\ GcIdle

RetryRest == <<coreVars, genVars, wdVars, fetchVars, sfVars, cmVars, svVars, gcVars>>

RetryAlone == CoreIdle /\ GenIdle /\ WDIdle /\ FetchIdle /\ SFIdle /\ CmIdle /\ SvIdle /\ GcIdle

WDRest == <<coreVars, genVars, retryVars, fetchVars, sfVars, cmVars, svVars, gcVars>>

WDAlone == CoreIdle /\ GenIdle /\ RetryIdle /\ FetchIdle /\ SFIdle /\ CmIdle /\ SvIdle /\ GcIdle

FetchRest == <<coreVars, genVars, retryVars, wdVars, sfVars, cmVars, svVars, gcVars>>

FetchAlone == CoreIdle /\ GenIdle /\ RetryIdle /\ WDIdle /\ SFIdle /\ CmIdle /\ SvIdle /\ GcIdle

SFRest == <<coreVars, genVars, retryVars, wdVars, fetchVars, cmVars, svVars, gcVars>>

SFAlone == CoreIdle /\ GenIdle /\ RetryIdle /\ WDIdle /\ FetchIdle /\ CmIdle /\ SvIdle /\ GcIdle

CmRest == <<coreVars, genVars, retryVars, wdVars, fetchVars, sfVars, svVars, gcVars>>

CmAlone == CoreIdle /\ GenIdle /\ RetryIdle /\ WDIdle /\ FetchIdle /\ SFIdle /\ SvIdle /\ GcIdle

SvRest == <<coreVars, genVars, retryVars, wdVars, fetchVars, sfVars, cmVars, gcVars>>

SvAlone == CoreIdle /\ GenIdle /\ RetryIdle /\ WDIdle /\ FetchIdle /\ SFIdle /\ CmIdle /\ GcIdle

GcRest == <<coreVars, genVars, retryVars, wdVars, fetchVars, sfVars, cmVars, svVars>>

GcAlone == CoreIdle /\ GenIdle /\ RetryIdle /\ WDIdle /\ FetchIdle /\ SFIdle /\ CmIdle /\ SvIdle

SvcIdle == CCIdle /\ FlowIdle /\ RLIdle /\ CacheIdle /\ KeyIdle /\ ExtIdle

(***************************************************************************)
(* SpecTrim: one call of _trim_patch on a bounded patch.                   *)
(***************************************************************************)
\* the lines patches are made of: a hunk header, an added line, a removed
\* line, a context line, and a removed line whose own text starts with "-- "
\* (a deleted SQL or Lua comment; before the first hunk it reads as the
\* "--- a/path" file header)
LineUniverse == {"@@ -1 +1 @@", "+a", "-b", " c", "--- d"}

RECURSIVE SeqsUpTo(_, _)
SeqsUpTo(S, n) ==
    IF n = 0 THEN {<<>>}
    ELSE LET shorter == SeqsUpTo(S, n - 1) IN
         shorter \cup {Append(q, x) : q \in {r \in shorter : Len(r) = n - 1}, x \in S}

TrimInit ==
    /\ t_patch \in {JoinLines(ls) : ls \in SeqsUpTo(LineUniverse, MaxPatchLines)}
    /\ t_K \in 0..MaxK
    /\ t_out = None
    /\ t_pc = "ready"
    /\ ProcIdle
    /\ CBIdle
    /\ SvcIdle

\* trimmed = self._trim_patch(f.patch)
Trim ==
    /\ t_pc = "ready"
    /\ t_out' = TrimPatch(t_patch, t_K)
    /\ t_pc' = "done"
    /\ UNCHANGED <<t_patch, t_K, procVars, cbVars, svcVars>>

TrimNext == Trim

SpecTrim == TrimInit /\ [][TrimNext]_vars

(***************************************************************************)
(* SpecProc: process(bundle, commits), step by step, then a second call on *)
(* a reordering of the same files.                                         *)
(***************************************************************************)
\* the DiffFile records bundles are made of (hunk_count: <<>> is None)
FileA == [filename |-> "src/a.py", status |-> "modified", additions |-> 1,
          deletions |-> 1, previous_filename |-> None, is_binary |-> FALSE,
          change_type |-> "code", hunk_count |-> <<1>>,
          patch |-> "@@ -1,3 +1,3 @@\n c\n-b\n+a\n c"]
FileB == [filename |-> "src/b.py", status |-> "added", additions |-> 2,
          deletions |-> 0, previous_filename |-> None, is_binary |-> FALSE,
          change_type |-> "code", hunk_count |-> <<1>>,
          patch |-> "@@ -0,0 +1,2 @@\n+def parse(text):\n+    return text.strip().lower().split(None, 1)"]
FileD == [filename |-> "docs/r.md", status |-> "modified", additions |-> 1,
          deletions |-> 1, previous_filename |-> None, is_binary |-> FALSE,
          change_type |-> "docs", hunk_count |-> <<1>>,
          patch |-> "@@ -1 +1 @@\n-The old opening paragraph of the guide.\n+The new opening paragraph of the guide, rewritten."]
FileI == [filename |-> "img/l.png", status |-> "added", additions |-> 0,
          deletions |-> 0, previous_filename |-> None, is_binary |-> TRUE,
          change_type |-> "other", hunk_count |-> <<>>,
          patch |-> None]
FileM == [filename |-> "Makefile", status |-> "renamed", additions |-> 0,
          deletions |-> 0, previous_filename |-> "makefile", is_binary |-> FALSE,
          change_type |-> "config", hunk_count |-> <<>>,
          patch |-> None]

FileUniverse == <<FileA, FileB, FileD, FileI, FileM>>

Commit1 == [sha |-> "0123456789abcdef", author_login |-> "dev",
            message |-> "fix parser", raw_message |-> "fix parser\n\nbody"]

\* the i-th commit of a pull request: the sha and the author tell commits apart
CommitAt(i) ==
    [Commit1 EXCEPT !.sha = ToString(i) \o "f" \o Commit1.sha,
                    !.author_login = "dev" \o ToString(i)]

\* a history one commit longer than the summary holds
LongHistory == CommitsSummaryCap + 1

RECURSIVE Pick(_, _, _)
\* the elements of seq from index i on whose index is in idxs, in order
Pick(seq, idxs, i) ==
    IF i > Len(seq) THEN <<>>
    ELSE (IF i \in idxs THEN <<seq[i]>> ELSE <<>>) \o Pick(seq, idxs, i + 1)

\* the orderings of the elements of seq
Orderings(seq) ==
    {[i \in 1..Len(seq) |-> seq[f[i]]] :
        f \in {g \in [1..Len(seq) -> 1..Len(seq)] :
                  \A i, j \in 1..Len(seq) : i # j => g[i] # g[j]}}

SoftRatioPct == 60
DefaultContextLines == 3

\* __init__: self._soft_chunk_budget = int(self.max_tokens_per_chunk * soft_ratio)
NewProcessor(context_lines, max_files_per_chunk, max_chunks, hard, cpt) ==
    [context_lines |-> context_lines,
     max_files_per_chunk |-> max_files_per_chunk,
     max_chunks |-> max_chunks,
     max_tokens_per_chunk |-> hard,
     token_chars_per_token |-> cpt,
     soft_chunk_budget |-> (hard * SoftRatioPct) \div 100]

HardBudgets == {20, 60, 100}
CharsPerToken == {1, 4}

ProcInit ==
    /\ \E idxs \in SUBSET (1..Len(FileUniverse)) :
          /\ Cardinality(idxs) <= MaxFiles
          /\ \E tr \in BOOLEAN :
                bundle = [files |-> Pick(FileUniverse, idxs, 1), truncated |-> tr]
    /\ \E n \in (0..MaxCommits) \cup {LongHistory} : commits = [i \in 1..n |-> CommitAt(i)]
    /\ \E k \in {0, DefaultContextLines}, mf \in 1..2, mc \in 1..2,
          hard \in HardBudgets, cpt \in CharsPerToken :
          dcfg = NewProcessor(k, mf, mc, hard, cpt)
    /\ processed_files = <<>>
    /\ chunks = <<>>
    /\ degradation = "full"
    /\ diagnostics = <<>>
    /\ degradation_reason = None
    /\ d_pc = "start"
    /\ result = <<>>
    /\ prev_result = <<>>
    /\ TrimIdle
    /\ CBIdle
    /\ SvcIdle

\* lines 94-100: every file of the bundle converted
Convert ==
    /\ d_pc = "start"
    /\ processed_files' = [i \in 1..Len(bundle.files) |-> ToProcessedFile(bundle.files[i])]
    /\ d_pc' = "converted"
    /\ UNCHANGED <<bundle, commits, dcfg, chunks, degradation, diagnostics,
                   degradation_reason, result, prev_result, trimVars, cbVars, svcVars>>

\* lines 103-111: the initial ordering and chunking at degradation full
Chunk ==
    /\ d_pc = "converted"
    /\ chunks' = BuildChunks(GroupAndOrder(processed_files))
    /\ degradation' = "full"
    /\ diagnostics' = <<>>
    /\ degradation_reason' = None
    /\ d_pc' = "chunked"
    /\ UNCHANGED <<bundle, commits, dcfg, processed_files, result, prev_result,
                   trimVars, cbVars, svcVars>>

\* lines 113-124: the first check, and the step to files_only
DegradeToFilesOnly ==
    /\ d_pc = "chunked"
    /\ IF OverChunks(chunks) \/ OverBudget(chunks)
       THEN LET dropped == [i \in 1..Len(processed_files) |-> DropPatch(processed_files[i])] IN
            /\ degradation' = "files_only"
            /\ degradation_reason' = FirstReason(OverBudget(chunks), OverChunks(chunks))
            /\ diagnostics' = Append(diagnostics,
                  "degraded to files_only due to token budget/chunk limits")
            /\ processed_files' = dropped
            /\ chunks' = BuildChunks(GroupAndOrder(dropped))
       ELSE UNCHANGED <<degradation, degradation_reason, diagnostics,
                        processed_files, chunks>>
    /\ d_pc' = "checked1"
    /\ UNCHANGED <<bundle, commits, dcfg, result, prev_result, trimVars, cbVars, svcVars>>

\* the summary of every commit, without the cap
CommitsSummary_Uncapped(cs) ==
    [i \in 1..Len(cs) |-> CommitSummaryOf(cs[i])]

\* lines 147-154: one CommitSummary per commit of commits[:20], [] for no commits
CommitsSummary(cs) ==
    [i \in 1..Min(CommitsSummaryCap, Len(cs)) |-> CommitSummaryOf(cs[i])]

\* lines 126-134: the second check, and the step to commits_only
DegradeToCommitsOnly ==
    /\ d_pc = "checked1"
    /\ IF OverChunks(chunks) \/ OverBudget(chunks)
       THEN /\ degradation' = "commits_only"
            /\ degradation_reason' =
                  (IF degradation_reason = None
                   THEN (IF OverChunks(chunks) THEN "chunks" ELSE "budget")
                   ELSE degradation_reason)
            /\ diagnostics' = Append(diagnostics,
                  "degraded to commits_only due to >max chunks after files_only")
            /\ chunks' = << [idx |-> 0, files |-> <<>>, files_count |-> 0,
                             tokens_est |-> 0, diagnostics |-> <<"commits_only">>] >>
       ELSE UNCHANGED <<degradation, degradation_reason, diagnostics, chunks>>
    /\ d_pc' = "checked2"
    /\ UNCHANGED <<bundle, commits, dcfg, processed_files, result, prev_result,
                   trimVars, cbVars, svcVars>>

\* lines 136-170: totals, the truncation note, commits_summary, the return
Return ==
    /\ d_pc = "checked2"
    /\ LET diags == IF bundle.truncated
                    THEN Append(diagnostics, "input bundle truncated at fetch stage")
                    ELSE diagnostics
           reason == IF bundle.truncated /\ degradation_reason = None
                     THEN "input_truncated" ELSE degradation_reason
           summary == IF degradation = "commits_only"
                      THEN << CommitsSummary(commits) >>
                      ELSE <<>>
       IN /\ diagnostics' = diags
          /\ degradation_reason' = reason
          /\ result' = << [chunks |-> chunks,
                           total_files |-> Len(processed_files),
                           total_tokens_est |-> SumTokens(chunks),
                           truncated |-> bundle.truncated,
                           degradation |-> degradation,
                           diagnostics |-> diags,
                           degradation_reason |-> reason,
                           commits_summary |-> summary] >>
    /\ d_pc' = "done"
    /\ UNCHANGED <<bundle, commits, dcfg, processed_files, chunks, degradation,
                   prev_result, trimVars, cbVars, svcVars>>

\* a second process() call of the same processor on the same files, in any order
CallAgain ==
    /\ d_pc = "done"
    /\ prev_result = <<>>
    /\ prev_result' = result
    /\ \E fs \in Orderings(bundle.files) : bundle' = [bundle EXCEPT !.files = fs]
    /\ processed_files' = <<>>
    /\ chunks' = <<>>
    /\ degradation' = "full"
    /\ diagnostics' = <<>>
    /\ degradation_reason' = None
    /\ result' = <<>>
    /\ d_pc' = "start"
    /\ UNCHANGED <<commits, dcfg, trimVars, cbVars, svcVars>>

ProcNext ==
    \/ Convert
    \/ Chunk
    \/ DegradeToFilesOnly
    \/ DegradeToCommitsOnly
    \/ Return
    \/ CallAgain

SpecProc == ProcInit /\ [][ProcNext]_vars


(***************************************************************************)
(* C4                                                                      *)
(***************************************************************************)
RECURSIVE IsSubseq(_, _)
\* the elements of a occur in b, in the order of a
IsSubseq(a, b) ==
    IF Len(a) = 0 THEN TRUE
    ELSE IF Len(b) = 0 THEN FALSE
    ELSE IF Head(a) = Head(b) THEN IsSubseq(Tail(a), Tail(b))
    ELSE IsSubseq(a, Tail(b))

RECURSIVE SelectLines(_, _, _, _)
\* the lines of ls from i on that lie in a hunk body and start with + or -
SelectLines(ls, i, inHunk, dropHeaders) ==
    IF i > Len(ls) THEN <<>>
    ELSE IF StartsWith(ls[i], "@@") THEN SelectLines(ls, i + 1, TRUE, dropHeaders)
    ELSE LET marked == StartsWith(ls[i], "+") \/ StartsWith(ls[i], "-")
             header == StartsWith(ls[i], "+++") \/ StartsWith(ls[i], "---")
             take   == inHunk /\ marked /\ ~(dropHeaders /\ header)
         IN (IF take THEN <<ls[i]>> ELSE <<>>)
            \o SelectLines(ls, i + 1, inHunk, dropHeaders)

\* every line of a hunk body that starts with + or -
BodyMarkedLines(patch) == SelectLines(SplitLines(patch), 1, FALSE, FALSE)

TrimmedLines == IF t_out = None THEN <<>> ELSE SplitLines(t_out)

\* C4: every added or removed line of every hunk body (a line starting with
\* '+' or '-'; only the file-header lines before the first hunk are excluded)
\* appears in the trimmed patch, in its original relative order, for every
\* context width K >= 0.
C4_AllMarkedLinesSurvive ==
    t_pc = "done" => IsSubseq(BodyMarkedLines(t_patch), TrimmedLines)

(***************************************************************************)
(* Claims about process().                                                 *)
(***************************************************************************)
Returned == d_pc = "done"
Res == result[1]

\* the two limits of process(), stated on a list of chunks
LimitViolated(chs) ==
    \/ Len(chs) > dcfg.max_chunks
    \/ \E i \in 1..Len(chs) : chs[i].tokens_est > dcfg.max_tokens_per_chunk

HasDiagnostic(ch, d) == \E i \in 1..Len(ch.diagnostics) : ch.diagnostics[i] = d

CappedOrMarked(chs) ==
    \A i \in 1..Len(chs) :
        chs[i].tokens_est > dcfg.max_tokens_per_chunk
            => HasDiagnostic(chs[i], "hard token cap exceeded")

\* C1: the returned ProcessedDiff either keeps every chunk within the hard
\* per-chunk budget and the number of chunks within max_chunks, or has
\* degradation commits_only; and no chunk list process() holds or returns has
\* a chunk over the hard budget without the 'hard token cap exceeded'
\* diagnostic.
C1_LimitsOrCommitsOnly ==
    /\ Returned => (~LimitViolated(Res.chunks) \/ Res.degradation = "commits_only")
    /\ Returned => CappedOrMarked(Res.chunks)
    /\ d_pc \in {"chunked", "checked1", "checked2"} => CappedOrMarked(chunks)

C1_Witness ==
    /\ Returned
    /\ Res.degradation = "files_only"
    /\ Len(Res.chunks) >= 1
    /\ ~LimitViolated(Res.chunks)

RECURSIVE Flatten(_)
\* the files of a list of chunks, read chunk by chunk
Flatten(chs) == IF Len(chs) = 0 THEN <<>> ELSE Head(chs).files \o Flatten(Tail(chs))

SameFiles(fs, gs) ==
    /\ Len(fs) = Len(gs)
    /\ \A i \in 1..Len(fs) : \E j \in 1..Len(gs) : fs[i] = gs[j]

SummariesOnly(fs) ==
    \A i \in 1..Len(fs) :
        /\ fs[i].patch_trimmed = None
        /\ fs[i].tokens_est = EstimateTokens(fs[i].summary)

\* C2: inside one process() call the degradation level changes only from full
\* to files_only, and then only when the initial chunking breaks one of the two
\* limits, or from files_only to commits_only, and then only when the chunks
\* rebuilt from the summaries still break one of them.
C2_DegradationRatchet ==
    [][ (d_pc # "done" /\ degradation' # degradation) =>
          \/ /\ degradation = "full" /\ degradation' = "files_only"
             /\ d_pc = "chunked"
             /\ LimitViolated(chunks)
          \/ /\ degradation = "files_only" /\ degradation' = "commits_only"
             /\ SummariesOnly(processed_files)
             /\ SameFiles(Flatten(chunks), processed_files)
             /\ LimitViolated(chunks)
      ]_vars

C2_Witness == Returned /\ Res.degradation = "commits_only" /\ Len(bundle.files) >= 2

\* the ordering the claim C3 states: binary files first, then the rank of the
\* change type, then the top-level directory, then the full path
C3Rank(t) ==
    IF t = "code" THEN 0 ELSE IF t = "config" THEN 1 ELSE IF t = "data" THEN 2
    ELSE IF t = "docs" THEN 3 ELSE IF t = "tests" THEN 4 ELSE 5

C3Before(f, g) ==
    LET bf == IF f.is_binary THEN 0 ELSE 1
        bg == IF g.is_binary THEN 0 ELSE 1
        df == FirstSegment(f.path)
        dg == FirstSegment(g.path)
    IN \/ bf < bg
       \/ bf = bg /\ C3Rank(f.change_type) < C3Rank(g.change_type)
       \/ bf = bg /\ C3Rank(f.change_type) = C3Rank(g.change_type) /\ StrLess(df, dg)
       \/ bf = bg /\ C3Rank(f.change_type) = C3Rank(g.change_type) /\ df = dg
          /\ StrLess(f.path, g.path)

\* C3: the files of the result, read chunk by chunk, ascend by the key (binary
\* first, change-type rank, top-level directory, full path), and a second call
\* on any reordering of the same files returns the same ProcessedDiff.
C3_OrderIndependent ==
    /\ Returned =>
          LET fs == Flatten(Res.chunks) IN
          \A i \in 1..(Len(fs) - 1) : C3Before(fs[i], fs[i + 1])
    /\ (Returned /\ prev_result # <<>>) => result = prev_result

C3_Witness ==
    /\ Returned
    /\ prev_result # <<>>
    /\ Len(Res.chunks) >= 2
    /\ Len(bundle.files) >= 3
    /\ bundle.files[1].filename # Flatten(Res.chunks)[1].path

RECURSIVE SumFileTokens(_)
SumFileTokens(fs) == IF Len(fs) = 0 THEN 0 ELSE Head(fs).tokens_est + SumFileTokens(Tail(fs))

\* C5: at degradation full or files_only every chunk is non-empty, holds at
\* most max_files_per_chunk files, has tokens_est equal to the sum of its
\* files' estimates and files_count equal to its number of files, and is within
\* the soft budget unless it is a single file; and a chunk is followed by
\* another only when its successor's first file would have broken one of the
\* two limits.
C5_GreedyChunks ==
    (Returned /\ Res.degradation # "commits_only") =>
        LET chs == Res.chunks IN
        /\ \A i \in 1..Len(chs) :
              /\ Len(chs[i].files) >= 1
              /\ Len(chs[i].files) <= dcfg.max_files_per_chunk
              /\ chs[i].tokens_est = SumFileTokens(chs[i].files)
              /\ chs[i].files_count = Len(chs[i].files)
              /\ chs[i].tokens_est <= dcfg.soft_chunk_budget \/ Len(chs[i].files) = 1
        /\ \A i \in 2..Len(chs) :
              \/ Len(chs[i - 1].files) >= dcfg.max_files_per_chunk
              \/ chs[i - 1].tokens_est + chs[i].files[1].tokens_est > dcfg.soft_chunk_budget

C5_Witness ==
    /\ Returned
    /\ Res.degradation = "full"
    /\ Len(Res.chunks) = 2
    /\ Len(Res.chunks[1].files) = 2
    /\ Len(Res.chunks[1].files) = dcfg.max_files_per_chunk
    /\ Res.chunks[1].tokens_est + Res.chunks[2].files[1].tokens_est <= dcfg.soft_chunk_budget

\* C6: chunk indices are 0-based and contiguous: chunks[i].idx = i at every
\* position i of the returned ProcessedDiff.
C6_IdxContiguous ==
    Returned => \A i \in 1..Len(Res.chunks) : Res.chunks[i].idx = i - 1

(***************************************************************************)
(* SpecCB: one CircuitBreaker, its operations issued one after another in  *)
(* any order while the clock advances.                                     *)
(***************************************************************************)
\* _load() when the state file does not exist
CBDefault == [state |-> "CLOSED", failures |-> 0, ts_open |-> 0, half_open_calls |-> 0]

\* the recovery test with > for >=
RecoveryElapsed_Strict(ts) == now - ts > cbcfg.recovery_time_s

\* line 76: now - ts >= self.cfg.recovery_time_s
RecoveryElapsed(ts) == now - ts >= cbcfg.recovery_time_s

\* the probe test with <= for <
ProbeAvailable_Inclusive(hoc) == hoc <= cbcfg.half_open_max_calls

\* line 85: hoc < self.cfg.half_open_max_calls
ProbeAvailable(hoc) == hoc < cbcfg.half_open_max_calls

\* the threshold test with > for >=, and with = for >=
ThresholdReached_Strict(failures) == failures > cbcfg.failure_threshold

ThresholdReached_Equal(failures) == failures = cbcfg.failure_threshold

\* line 102: failures >= self.cfg.failure_threshold
ThresholdReached(failures) == failures >= cbcfg.failure_threshold

CBInit ==
    /\ cb = CBDefault
    /\ \E ft \in 1..MaxThreshold, rt \in 1..MaxRecovery, hm \in 1..MaxHalfOpen :
          cbcfg = [failure_threshold |-> ft, recovery_time_s |-> rt,
                   half_open_max_calls |-> hm]
    /\ now = 1
    /\ cb_call = [op |-> "none", ret |-> "None", from |-> "CLOSED"]
    /\ probes = 0
    /\ cb_fails = 0
    /\ TrimIdle
    /\ ProcIdle
    /\ SvcIdle

\* allow()
Allow ==
    /\ \/ /\ cb.state = "OPEN"
          /\ IF RecoveryElapsed(cb.ts_open)
             THEN /\ cb' = [cb EXCEPT !.state = "HALF_OPEN", !.half_open_calls = 0]
                  /\ cb_call' = [op |-> "allow", ret |-> "True", from |-> cb.state]
                  /\ probes' = 1
             ELSE /\ cb' = cb
                  /\ cb_call' = [op |-> "allow", ret |-> "False", from |-> cb.state]
                  /\ probes' = probes
       \/ /\ cb.state = "HALF_OPEN"
          /\ IF ProbeAvailable(cb.half_open_calls)
             THEN /\ cb' = [cb EXCEPT !.half_open_calls = cb.half_open_calls + 1]
                  /\ cb_call' = [op |-> "allow", ret |-> "True", from |-> cb.state]
                  /\ probes' = probes + 1
             ELSE /\ cb' = cb
                  /\ cb_call' = [op |-> "allow", ret |-> "False", from |-> cb.state]
                  /\ probes' = probes
       \/ /\ cb.state = "CLOSED"
          /\ cb' = cb
          /\ cb_call' = [op |-> "allow", ret |-> "True", from |-> cb.state]
          /\ probes' = probes
    /\ UNCHANGED <<cbcfg, now, cb_fails, trimVars, procVars, svcVars>>

\* record_success()
RecordSuccess ==
    /\ cb' = [cb EXCEPT !.state = "CLOSED", !.failures = 0, !.ts_open = 0,
                        !.half_open_calls = 0]
    /\ cb_call' = [op |-> "record_success", ret |-> "None", from |-> cb.state]
    /\ probes' = 0
    /\ cb_fails' = 0
    /\ UNCHANGED <<cbcfg, now, trimVars, procVars, svcVars>>

\* record_failure()
RecordFailure ==
    /\ cb.failures < MaxFailures
    /\ LET failures == cb.failures + 1 IN
       cb' = IF ThresholdReached(failures)
             THEN [cb EXCEPT !.failures = failures, !.state = "OPEN",
                             !.ts_open = now, !.half_open_calls = 0]
             ELSE [cb EXCEPT !.failures = failures]
    /\ cb_call' = [op |-> "record_failure", ret |-> "None", from |-> cb.state]
    /\ probes' = 0
    /\ cb_fails' = cb_fails + 1
    /\ UNCHANGED <<cbcfg, now, trimVars, procVars, svcVars>>

\* time.time() moves on between two operations
Tick ==
    /\ now < MaxTime
    /\ now' = now + 1
    /\ UNCHANGED <<cb, cbcfg, cb_call, probes, cb_fails, trimVars, procVars, svcVars>>

CBNext ==
    \/ Allow
    \/ RecordSuccess
    \/ RecordFailure
    \/ Tick

SpecCB == CBInit /\ [][CBNext]_vars

(***************************************************************************)
(* Claims about the circuit breaker.                                       *)
(***************************************************************************)
\* C7: while fewer than failure_threshold record_failure() calls have occurred
\* since the last record_success() the breaker is CLOSED and allow() returns
\* true; the record_failure() call that brings the count to failure_threshold
\* finds it CLOSED and leaves it OPEN with ts_open = now and
\* half_open_calls = 0.
C7_OpensAtThreshold ==
    [][ /\ cb_fails < cbcfg.failure_threshold => cb.state = "CLOSED"
        /\ (Allow /\ cb_fails < cbcfg.failure_threshold) => cb_call'.ret = "True"
        /\ (RecordFailure /\ cb_fails + 1 < cbcfg.failure_threshold)
              => cb'.state = "CLOSED"
        /\ (RecordFailure /\ cb_fails + 1 = cbcfg.failure_threshold)
              => /\ cb.state = "CLOSED"
                 /\ cb'.state = "OPEN"
                 /\ cb'.ts_open = now
                 /\ cb'.half_open_calls = 0
      ]_vars

C7_Witness ==
    /\ cbcfg.failure_threshold >= 2
    /\ cb_call.op = "record_failure"
    /\ cb_call.from = "CLOSED"
    /\ cb_fails = cbcfg.failure_threshold
    /\ cb.state = "OPEN"
    /\ cb.ts_open = now

\* C8: while OPEN with now - ts_open < recovery_time_s an allow() returns false
\* and leaves the persisted state as it is; an allow() issued when
\* now - ts_open >= recovery_time_s returns true and sets HALF_OPEN; and no
\* step other than such an allow() takes the breaker from OPEN to HALF_OPEN.
C8_LazyHalfOpen ==
    [][ /\ (Allow /\ cb.state = "OPEN" /\ now - cb.ts_open < cbcfg.recovery_time_s)
              => (cb_call'.ret = "False" /\ cb' = cb)
        /\ (Allow /\ cb.state = "OPEN" /\ now - cb.ts_open >= cbcfg.recovery_time_s)
              => (cb_call'.ret = "True" /\ cb'.state = "HALF_OPEN")
        /\ (cb.state = "OPEN" /\ cb'.state = "HALF_OPEN")
              => /\ cb_call'.op = "allow" /\ cb_call'.ret = "True"
                 /\ now' = now
                 /\ now - cb.ts_open >= cbcfg.recovery_time_s
      ]_vars

C8_Witness ==
    /\ cb.state = "HALF_OPEN"
    /\ cb_call = [op |-> "allow", ret |-> "True", from |-> "OPEN"]
    /\ now - cb.ts_open = cbcfg.recovery_time_s
    /\ cbcfg.recovery_time_s >= 2

\* C9: between the allow() that moves the breaker from OPEN to HALF_OPEN and
\* the next record_success() or record_failure(), at most half_open_max_calls
\* allow() calls return true, the probe that made the transition included.
C9_ProbeCap ==
    cb.state = "HALF_OPEN" => probes <= cbcfg.half_open_max_calls

\* C10: a record_success() issued while HALF_OPEN leaves the breaker CLOSED
\* with failures = 0, ts_open = 0 and half_open_calls = 0; a record_failure()
\* issued while HALF_OPEN leaves it OPEN with ts_open = now.
C10_HalfOpenResolution ==
    [][ /\ (RecordSuccess /\ cb.state = "HALF_OPEN")
              => cb' = [state |-> "CLOSED", failures |-> 0, ts_open |-> 0,
                        half_open_calls |-> 0]
        /\ (RecordFailure /\ cb.state = "HALF_OPEN")
              => (cb'.state = "OPEN" /\ cb'.ts_open = now)
      ]_vars

C10_Witness ==
    /\ cbcfg.failure_threshold >= 2
    /\ cb_call.op = "record_failure"
    /\ cb_call.from = "HALF_OPEN"
    /\ cb.state = "OPEN"
    /\ cb.ts_open = now
    /\ cb.failures = cbcfg.failure_threshold + 1

(***************************************************************************)
(* SpecCBConc: two callers of one breaker name.  Every operation is a      *)
(* _load() of the state file followed, after the other caller may have     *)
(* run, by the decision and the _save(); the code takes no lock.           *)
(***************************************************************************)
Callers == {"p", "q"}

CBOps == {"allow", "record_success", "record_failure"}

\* allow() on the loaded data: what it saves (if it saves) and returns
AllowOf(data) ==
    IF data.state = "OPEN"
    THEN IF RecoveryElapsed(data.ts_open)
         THEN [data |-> [data EXCEPT !.state = "HALF_OPEN", !.half_open_calls = 0],
               save |-> TRUE, ret |-> "True"]
         ELSE [data |-> data, save |-> FALSE, ret |-> "False"]
    ELSE IF data.state = "HALF_OPEN"
    THEN IF ProbeAvailable(data.half_open_calls)
         THEN [data |-> [data EXCEPT !.half_open_calls = data.half_open_calls + 1],
               save |-> TRUE, ret |-> "True"]
         ELSE [data |-> data, save |-> FALSE, ret |-> "False"]
    ELSE [data |-> data, save |-> FALSE, ret |-> "True"]

\* record_success() on the loaded data
RecordSuccessOf(data) ==
    [data |-> [data EXCEPT !.state = "CLOSED", !.failures = 0, !.ts_open = 0,
                           !.half_open_calls = 0],
     save |-> TRUE, ret |-> "None"]

\* record_failure() on the loaded data
RecordFailureOf(data) ==
    LET failures == data.failures + 1 IN
    [data |-> IF ThresholdReached(failures)
              THEN [data EXCEPT !.failures = failures, !.state = "OPEN",
                                !.ts_open = now, !.half_open_calls = 0]
              ELSE [data EXCEPT !.failures = failures],
     save |-> TRUE, ret |-> "None"]

OpOf(op, data) ==
    IF op = "allow" THEN AllowOf(data)
    ELSE IF op = "record_success" THEN RecordSuccessOf(data)
    ELSE RecordFailureOf(data)

CCAt(pc) == {c \in Callers : cc_proc[c].pc = pc}

CCRest == [pc |-> "idle", op |-> "none", data |-> CBDefault, ret |-> "None"]

CBConcInit ==
    /\ cb = CBDefault
    /\ \E ft \in 1..MaxThreshold, rt \in 1..MaxRecovery, hm \in 1..MaxHalfOpen :
          cbcfg = [failure_threshold |-> ft, recovery_time_s |-> rt,
                   half_open_max_calls |-> hm]
    /\ now = 1
    /\ cb_call = <<>> /\ probes = 0 /\ cb_fails = 0
    /\ cc_proc = [c \in Callers |-> CCRest]
    /\ cc_start = CBDefault
    /\ TrimIdle /\ ProcIdle
    /\ FlowIdle /\ RLIdle /\ CacheIdle /\ KeyIdle /\ ExtIdle

\* data = self._load(): the first step of allow / record_success / record_failure
CCLoad(c, op) ==
    /\ cc_proc[c].pc = "idle"
    /\ op = "record_failure" => cb.failures < MaxFailures
    /\ cc_proc' = [cc_proc EXCEPT ![c] = [pc |-> "loaded", op |-> op,
                                          data |-> cb, ret |-> "None"]]
    /\ cc_start' = IF CCAt("idle") = Callers THEN cb ELSE cc_start
    /\ UNCHANGED <<cb, cbcfg, now, cb_call, probes, cb_fails, trimVars, procVars,
                   flowVars, rlVars, cacheVars, keyVars, extVars>>

\* the rest of the operation: the decision on the loaded data and self._save(data)
CCFinish(c) ==
    /\ cc_proc[c].pc = "loaded"
    /\ LET r == OpOf(cc_proc[c].op, cc_proc[c].data) IN
       /\ cb' = IF r.save THEN r.data ELSE cb
       /\ cc_proc' = [cc_proc EXCEPT ![c].pc = "done", ![c].ret = r.ret]
    /\ UNCHANGED <<cbcfg, now, cb_call, probes, cb_fails, cc_start, trimVars,
                   procVars, flowVars, rlVars, cacheVars, keyVars, extVars>>

\* every call has returned: the callers are free to call again
CCQuiet ==
    /\ CCAt("loaded") = {}
    /\ CCAt("done") # {}
    /\ cc_proc' = [c \in Callers |-> CCRest]
    /\ UNCHANGED <<cb, cbcfg, now, cb_call, probes, cb_fails, cc_start, trimVars,
                   procVars, flowVars, rlVars, cacheVars, keyVars, extVars>>

\* time.time() moves on while no call is in flight
CCTick ==
    /\ CCAt("idle") = Callers
    /\ now < MaxTime
    /\ now' = now + 1
    /\ UNCHANGED <<cb, cbcfg, cb_call, probes, cb_fails, ccVars, trimVars,
                   procVars, flowVars, rlVars, cacheVars, keyVars, extVars>>

CBConcNext ==
    \/ \E c \in Callers, op \in CBOps : CCLoad(c, op)
    \/ \E c \in Callers : CCFinish(c)
    \/ CCQuiet
    \/ CCTick

SpecCBConc == CBConcInit /\ [][CBConcNext]_vars

\* the calls of `order` run one after the other from state file d
RECURSIVE SeqRun(_, _)
SeqRun(order, d) ==
    IF order = <<>> THEN [data |-> d, rets |-> <<>>]
    ELSE LET r == OpOf(cc_proc[Head(order)].op, d)
             rest == SeqRun(Tail(order), r.data)
         IN [data |-> rest.data, rets |-> <<r.ret>> \o rest.rets]

CallOrders(D) ==
    {o \in SeqsUpTo(D, Cardinality(D)) :
        Len(o) = Cardinality(D) /\ {o[i] : i \in 1..Len(o)} = D}

SameAsSerial(order) ==
    LET r == SeqRun(order, cc_start) IN
    /\ r.data = cb
    /\ \A i \in 1..Len(order) : r.rets[i] = cc_proc[order[i]].ret

\* C11: calls on one breaker name that overlap behave as if run one at a
\* time: once all of them have returned, the state file and the values they
\* returned are those of some sequential order of the same calls (so no
\* record_failure() increment is lost and overlapping HALF_OPEN allow() calls
\* admit no more probes than they would one after the other).
C11_Serializable ==
    (CCAt("loaded") = {} /\ CCAt("done") # {})
        => \E order \in CallOrders(CCAt("done")) : SameAsSerial(order)

(***************************************************************************)
(* SpecFlow: the agent's commands that run a protected call behind a       *)
(* breaker (agents/release_notes_agent.py, main).  What allow() answers    *)
(* and how the protected call ends are the environment's choice.           *)
(***************************************************************************)
MaxRuns == 3            \* commands started in one behaviour

BreakerNames == {"diff", "bedrock", "github_api"}

Commands == {"generate", "publish-release"}

\* how a protected call can end: it returns, it raises the client's typed
\* BedrockError / ReleasePublishError, or it raises anything else (the
\* watchdog's TimeoutError, a network error of the HTTP library)
CallOutcomes == {"ok", "typed_error", "other_error"}

FlowInit ==
    /\ flow = [cmd |-> "none", pc |-> "exit", dry_run |-> FALSE]
    /\ fl_allowed = [b \in BreakerNames |-> 0]
    /\ fl_recorded = [b \in BreakerNames |-> 0]
    /\ fl_runs = 0
    /\ TrimIdle /\ ProcIdle /\ CBIdle
    /\ CCIdle /\ RLIdle /\ CacheIdle /\ KeyIdle /\ ExtIdle

FlowRest == <<trimVars, procVars, cbVars, ccVars, rlVars, cacheVars, keyVars, extVars>>

AllowGranted(b) == fl_allowed' = [fl_allowed EXCEPT ![b] = @ + 1]

Recorded(b) == fl_recorded' = [fl_recorded EXCEPT ![b] = @ + 1]

\* main() is entered with a command line
FlowStart(cmd, dry) ==
    /\ flow.pc = "exit"
    /\ fl_runs < MaxRuns
    /\ fl_runs' = fl_runs + 1
    /\ flow' = [cmd |-> cmd, dry_run |-> dry,
                pc |-> IF cmd = "generate" THEN "diff_allow" ELSE "github_allow"]
    /\ UNCHANGED <<fl_allowed, fl_recorded, FlowRest>>

\* lines 276-279: cb_diff.allow(); a refusal exits
DiffAllow(granted) ==
    /\ flow.pc = "diff_allow"
    /\ IF granted
       THEN AllowGranted("diff") /\ flow' = [flow EXCEPT !.pc = "diff_call"]
       ELSE UNCHANGED fl_allowed /\ flow' = [flow EXCEPT !.pc = "exit"]
    /\ UNCHANGED <<fl_recorded, fl_runs, FlowRest>>

\* lines 280-291: fetch and process under try / except Exception
DiffCall(outcome, has_chunks) ==
    /\ flow.pc = "diff_call"
    /\ Recorded("diff")
    /\ flow' = [flow EXCEPT !.pc = IF outcome = "ok" /\ has_chunks
                                   THEN "bedrock_allow" ELSE "exit"]
    /\ UNCHANGED <<fl_allowed, fl_runs, FlowRest>>

\* lines 301-304: cb.allow() of the "bedrock" breaker
BedrockAllow(granted) ==
    /\ flow.pc = "bedrock_allow"
    /\ IF granted
       THEN AllowGranted("bedrock") /\ flow' = [flow EXCEPT !.pc = "bedrock_call"]
       ELSE UNCHANGED fl_allowed /\ flow' = [flow EXCEPT !.pc = "exit"]
    /\ UNCHANGED <<fl_recorded, fl_runs, FlowRest>>

\* lines 307-336: the model call under try / except BedrockError; any other
\* exception leaves the try block without passing a record_* call
BedrockCall(outcome) ==
    /\ flow.pc = "bedrock_call"
    /\ IF outcome \in {"ok", "typed_error"}
       THEN Recorded("bedrock")
       ELSE UNCHANGED fl_recorded
    /\ flow' = [flow EXCEPT !.pc = "exit"]
    /\ UNCHANGED <<fl_allowed, fl_runs, FlowRest>>

\* lines 571-574: cb_gh.allow() of the "github_api" breaker
GithubAllow(granted) ==
    /\ flow.pc = "github_allow"
    /\ IF granted
       THEN AllowGranted("github_api") /\ flow' = [flow EXCEPT !.pc = "github_call"]
       ELSE UNCHANGED fl_allowed /\ flow' = [flow EXCEPT !.pc = "exit"]
    /\ UNCHANGED <<fl_recorded, fl_runs, FlowRest>>

\* lines 575-602: get_by_tag, then (unless dry_run) update or create; cb_gh
\* is not used again on any of the ways out
GithubCall(outcome) ==
    /\ flow.pc = "github_call"
    /\ flow' = [flow EXCEPT !.pc = "exit"]
    /\ UNCHANGED <<fl_allowed, fl_recorded, fl_runs, FlowRest>>

FlowNext ==
    \/ \E cmd \in Commands, dry \in BOOLEAN : FlowStart(cmd, dry)
    \/ \E g \in BOOLEAN : DiffAllow(g)
    \/ \E o \in CallOutcomes, h \in BOOLEAN : DiffCall(o, h)
    \/ \E g \in BOOLEAN : BedrockAllow(g)
    \/ \E o \in CallOutcomes : BedrockCall(o)
    \/ \E g \in BOOLEAN : GithubAllow(g)
    \/ \E o \in CallOutcomes : GithubCall(o)

SpecFlow == FlowInit /\ [][FlowNext]_vars

\* C12: in the agent's flows every allow() that returned true on the diff,
\* bedrock or github_api breaker is followed by exactly one record_success()
\* or record_failure() on that breaker before the command ends, however the
\* protected call ended.
C12_EveryGrantRecorded ==
    flow.pc = "exit" => \A b \in BreakerNames : fl_recorded[b] = fl_allowed[b]

(***************************************************************************)
(* SpecRL: sequential calls of check_and_update_rate_limit on one key      *)
(* (utils/rate_limiter.py).                                                *)
(***************************************************************************)
MaxAttempts == 3        \* largest max_attempts drawn
MaxWindow   == 3        \* largest window_seconds drawn

\* _read_state of a missing or unreadable file
RLNoState == [start |-> 0, count |-> 0]

\* the window test with > for >=
WindowExpired_Strict(start, t) == start <= 0 \/ t - start > rlcfg.window_seconds

\* line 65: start <= 0 or now - start >= window_seconds
WindowExpired(start, t) == start <= 0 \/ t - start >= rlcfg.window_seconds

\* lines 65-78 on the state (start, count) read at time t: the state written
\* (write = FALSE when nothing is written) and the RateLimitResult
RateLimitOf(start, count, t) ==
    IF WindowExpired(start, t)
    THEN [write |-> TRUE, state |-> [start |-> t, count |-> 1],
          ret |-> [allowed |-> TRUE, reason |-> "new_window",
                   remaining |-> rlcfg.max_attempts - 1,
                   reset_in_s |-> rlcfg.window_seconds]]
    ELSE IF count < rlcfg.max_attempts
    THEN [write |-> TRUE, state |-> [start |-> start, count |-> count + 1],
          ret |-> [allowed |-> TRUE, reason |-> "ok",
                   remaining |-> rlcfg.max_attempts - (count + 1),
                   reset_in_s |-> Max(0, rlcfg.window_seconds - (t - start))]]
    ELSE [write |-> FALSE, state |-> [start |-> start, count |-> count],
          ret |-> [allowed |-> FALSE, reason |-> "rate_limited",
                   remaining |-> 0,
                   reset_in_s |-> Max(1, rlcfg.window_seconds - (t - start))]]

RLNoResult == [allowed |-> FALSE, reason |-> "none", remaining |-> 0, reset_in_s |-> 0]

RLInit ==
    /\ rl = RLNoState
    /\ \E ma \in 0..MaxAttempts, ws \in 0..MaxWindow :
          rlcfg = [max_attempts |-> ma, window_seconds |-> ws]
    /\ rl_now = 1
    /\ rl_ret = RLNoResult
    /\ rl_granted = 0
    /\ rl_deadline = 0
    /\ rl_waited = FALSE
    /\ rl_proc = <<>>
    /\ TrimIdle /\ ProcIdle /\ CBIdle
    /\ CCIdle /\ FlowIdle /\ CacheIdle /\ KeyIdle /\ ExtIdle

RLRest == <<trimVars, procVars, cbVars, ccVars, flowVars, cacheVars, keyVars, extVars>>

\* check_and_update_rate_limit(key, max_attempts, window_seconds)
RLCheck ==
    /\ LET r == RateLimitOf(rl.start, rl.count, rl_now) IN
       /\ rl' = IF r.write THEN r.state ELSE rl
       /\ rl_ret' = r.ret
       /\ rl_granted' = IF r.ret.reason = "new_window" THEN 1
                        ELSE IF r.ret.allowed THEN rl_granted + 1
                        ELSE rl_granted
       /\ rl_deadline' = IF r.ret.allowed THEN 0 ELSE rl_now + r.ret.reset_in_s
    /\ rl_waited' = (rl_deadline > 0 /\ rl_now >= rl_deadline)
    /\ UNCHANGED <<rlcfg, rl_now, rl_proc, RLRest>>

\* time.time() moves on between two calls
RLTick ==
    /\ rl_now < MaxTime
    /\ rl_now' = rl_now + 1
    /\ UNCHANGED <<rl, rlcfg, rl_ret, rl_granted, rl_deadline, rl_waited, rl_proc,
                   RLRest>>

RLNext ==
    \/ RLCheck
    \/ RLTick

SpecRL == RLInit /\ [][RLNext]_vars

\* C13: for any max_attempts and window_seconds, the calls allowed within one
\* window never number more than max_attempts; the k-th allowed call of a
\* window reports remaining = max_attempts - k, never negative; a denied call
\* reports remaining = 0 and reset_in_s >= 1.
C13_FixedWindowCap ==
    /\ rl_granted <= rlcfg.max_attempts
    /\ rl_ret.allowed =>
          (rl_ret.remaining = rlcfg.max_attempts - rl_granted /\ rl_ret.remaining >= 0)
    /\ rl_ret.reason = "rate_limited" =>
          (rl_ret.remaining = 0 /\ rl_ret.reset_in_s >= 1)

\* the same for max_attempts >= 1
C13_CapWhenPositive ==
    rlcfg.max_attempts >= 1 => C13_FixedWindowCap

\* C14: after a call denied at time t with reset_in_s = r, the first call made
\* at a time >= t + r is allowed and starts a new window with count = 1,
\* however many denied calls came in between; a denied call leaves the
\* persisted start and count as they were.
C14_ResetAfterWait ==
    [][ RLCheck =>
          /\ (rl_deadline > 0 /\ rl_now >= rl_deadline)
                => (rl_ret'.allowed /\ rl' = [start |-> rl_now, count |-> 1])
          /\ ~rl_ret'.allowed => rl' = rl
      ]_vars

C14_Witness ==
    /\ rl_waited
    /\ rl_ret.reason = "new_window"
    /\ rl = [start |-> rl_now, count |-> 1]
    /\ rlcfg.window_seconds >= 2
    /\ rlcfg.max_attempts >= 2

(***************************************************************************)
(* SpecRLConc: two callers of check_and_update_rate_limit on one key.  A   *)
(* call is _read_state followed, after the other caller may have run, by   *)
(* the decision and _write_state; the code takes no lock.                  *)
(***************************************************************************)
RLProcRest == [pc |-> "idle", start |-> 0, count |-> 0]

RLConcInit ==
    /\ rl = RLNoState
    /\ \E ma \in 1..MaxAttempts, ws \in 1..MaxWindow :
          rlcfg = [max_attempts |-> ma, window_seconds |-> ws]
    /\ rl_now = 1
    /\ rl_ret = RLNoResult
    /\ rl_granted = 0
    /\ rl_deadline = 0
    /\ rl_waited = FALSE
    /\ rl_proc = [c \in Callers |-> RLProcRest]
    /\ TrimIdle /\ ProcIdle /\ CBIdle
    /\ CCIdle /\ FlowIdle /\ CacheIdle /\ KeyIdle /\ ExtIdle

RLInFlight == {c \in Callers : rl_proc[c].pc = "read"}

\* lines 60-63: now = int(time.time()); start, count = _read_state(path)
RLRead(c) ==
    /\ rl_proc[c].pc = "idle"
    /\ rl_proc' = [rl_proc EXCEPT ![c] = [pc |-> "read", start |-> rl.start,
                                          count |-> rl.count]]
    /\ UNCHANGED <<rl, rlcfg, rl_now, rl_ret, rl_granted, rl_deadline, rl_waited,
                   RLRest>>

\* lines 65-78 on what was read: _write_state (unless denied) and the return
RLWrite(c) ==
    /\ rl_proc[c].pc = "read"
    /\ LET r == RateLimitOf(rl_proc[c].start, rl_proc[c].count, rl_now) IN
       /\ rl' = IF r.write THEN r.state ELSE rl
       /\ rl_ret' = r.ret
       /\ rl_granted' = IF ~r.ret.allowed THEN rl_granted
                        ELSE IF r.state.start # rl.start THEN 1
                        ELSE rl_granted + 1
    /\ rl_proc' = [rl_proc EXCEPT ![c] = RLProcRest]
    /\ UNCHANGED <<rlcfg, rl_now, rl_deadline, rl_waited, RLRest>>

\* time.time() moves on while no call is in flight
RLConcTick ==
    /\ RLInFlight = {}
    /\ rl_now < MaxTime
    /\ rl_now' = rl_now + 1
    /\ UNCHANGED <<rl, rlcfg, rl_ret, rl_granted, rl_deadline, rl_waited, rl_proc,
                   RLRest>>

RLConcNext ==
    \/ \E c \in Callers : RLRead(c)
    \/ \E c \in Callers : RLWrite(c)
    \/ RLConcTick

SpecRLConc == RLConcInit /\ [][RLConcNext]_vars

\* C15: under any interleaving of check_and_update calls on one key (with
\* max_attempts >= 1), at most max_attempts calls are allowed per window, and
\* when no call is in flight the persisted count is the number of calls
\* allowed in the current window.
C15_AtomicUpdates ==
    /\ rl_granted <= rlcfg.max_attempts
    /\ RLInFlight = {} => rl.count = rl_granted

(***************************************************************************)
(* SpecCache: get / put / invalidate of one key of the cache backend       *)
(* (cache/cache_backend.py), one call at a time.  A file of the key is     *)
(* absent (None), unreadable ("bad": open or decode raises) or holds text. *)
(***************************************************************************)
JsonTexts == {"j0", "j1"}

MdTexts == {"m0", "m1"}

Unreadable == "bad"

NoEntry == [json |-> None, md |-> None]

\* os.path.exists(path)
Exists(file) == file # None

\* open(path).read() returns (does not raise)
Readable(file) == file # None /\ file # Unreadable

\* an invalidate that forgets the markdown half
InvalidateOf_JsonOnly(files) == [files EXCEPT !.json = None]

\* lines 64-71: both paths removed if present, errors swallowed
InvalidateOf(files) == NoEntry

\* lines 30-43: a hit needs both files present and both reads to succeed
IsHit(files) ==
    /\ Exists(files.json) /\ Exists(files.md)
    /\ Readable(files.json) /\ Readable(files.md)

\* the reader at rest; ret is <<>> for None and <<j, m>> for a pair
ReaderRest == [pc |-> "idle", j |-> None, ret |-> <<>>, before |-> NoEntry,
               fresh |-> FALSE]

WriterRest == [pc |-> "idle", atomic |-> TRUE, old |-> NoEntry]

CacheInit ==
    /\ c_fs = NoEntry
    /\ c_put = WriterRest
    /\ c_get = ReaderRest
    /\ c_map = <<>>
    /\ TrimIdle /\ ProcIdle /\ CBIdle
    /\ CCIdle /\ FlowIdle /\ RLIdle /\ KeyIdle /\ ExtIdle

CacheRest == <<trimVars, procVars, cbVars, ccVars, flowVars, rlVars, keyVars, extVars>>

\* get(key)
CacheGet ==
    /\ c_fs' = IF IsHit(c_fs) THEN c_fs ELSE InvalidateOf(c_fs)
    /\ c_get' = [pc |-> "returned",
                 j |-> IF Readable(c_fs.json) THEN c_fs.json ELSE None,
                 ret |-> IF IsHit(c_fs) THEN <<c_fs.json, c_fs.md>> ELSE <<>>,
                 before |-> c_fs, fresh |-> FALSE]
    /\ UNCHANGED <<c_put, c_map, CacheRest>>

\* put(key, json_text, md_text)
CachePut(j, m) ==
    /\ c_fs' = [json |-> j, md |-> m]
    /\ c_map' = <<j, m>>
    /\ c_put' = [pc |-> "done", atomic |-> TRUE, old |-> c_fs]
    /\ UNCHANGED <<c_get, CacheRest>>

\* invalidate(key)
CacheInvalidate ==
    /\ c_fs' = InvalidateOf(c_fs)
    /\ c_map' = <<>>
    /\ UNCHANGED <<c_put, c_get, CacheRest>>

\* outside the backend a file of the entry is deleted or overwritten with
\* bytes that do not decode
CacheDamage(half, how) ==
    /\ Exists(c_fs[half])
    /\ c_fs[half] # how
    /\ c_fs' = [c_fs EXCEPT ![half] = how]
    /\ UNCHANGED <<c_put, c_get, c_map, CacheRest>>

CacheNext ==
    \/ CacheGet
    \/ \E j \in JsonTexts, m \in MdTexts : CachePut(j, m)
    \/ CacheInvalidate
    \/ \E half \in {"json", "md"}, how \in {None, Unreadable} : CacheDamage(half, how)

SpecCache == CacheInit /\ [][CacheNext]_vars

OldEntry == [json |-> "j0", md |-> "m0"]

NewEntry == [json |-> "j1", md |-> "m1"]

\* a file opened with mode "w" and not yet written in full
Partial == "part"

CacheConcInit ==
    /\ c_fs \in {NoEntry, OldEntry}
    /\ \E a \in BOOLEAN : c_put = [WriterRest EXCEPT !.atomic = a]
    /\ c_get = ReaderRest
    /\ c_map = IF c_fs = NoEntry THEN <<>> ELSE <<c_fs.json, c_fs.md>>
    /\ TrimIdle /\ ProcIdle /\ CBIdle
    /\ CCIdle /\ FlowIdle /\ RLIdle /\ KeyIdle /\ ExtIdle

\* the half of the entry the writer is working on
PutHalf == IF c_put.pc \in {"json_a", "json_b"} THEN "json" ELSE "md"

\* lines 45-47: put() is entered
PutBegin ==
    /\ c_put.pc = "idle"
    /\ c_put' = [c_put EXCEPT !.pc = "json_a", !.old = c_fs]
    /\ UNCHANGED <<c_fs, c_get, c_map, CacheRest>>

\* lines 57-61: the temporary file is created, written and fsynced (the
\* entry's file is untouched); or, without atomic writes, lines 49 / 51:
\* open(path, "w") truncates the entry's file
PutOpen ==
    /\ c_put.pc \in {"json_a", "md_a"}
    /\ c_fs' = IF c_put.atomic THEN c_fs ELSE [c_fs EXCEPT ![PutHalf] = Partial]
    /\ c_put' = [c_put EXCEPT !.pc = IF c_put.pc = "json_a" THEN "json_b" ELSE "md_b"]
    /\ UNCHANGED <<c_get, c_map, CacheRest>>

\* line 62: os.replace(tmp_path, path); or lines 50 / 52: the text is written
PutReplace ==
    /\ c_put.pc \in {"json_b", "md_b"}
    /\ c_fs' = [c_fs EXCEPT ![PutHalf] = NewEntry[PutHalf]]
    /\ c_put' = [c_put EXCEPT !.pc = IF c_put.pc = "json_b" THEN "md_a" ELSE "done"]
    /\ c_map' = IF c_put.pc = "md_b" THEN <<NewEntry.json, NewEntry.md>> ELSE c_map
    /\ UNCHANGED <<c_get, CacheRest>>

\* the writing process is killed inside put()
PutCrash ==
    /\ c_put.pc \in {"json_a", "json_b", "md_a", "md_b"}
    /\ c_put' = [c_put EXCEPT !.pc = "crashed"]
    /\ UNCHANGED <<c_fs, c_get, c_map, CacheRest>>

GetGoes(pc) == c_get' = [c_get EXCEPT !.pc = pc]

\* lines 28-29: get() is entered
GetBegin ==
    /\ c_get.pc \in {"idle", "returned"}
    /\ c_get' = [pc |-> "exists_json", j |-> None, ret |-> <<>>, before |-> c_fs,
                 fresh |-> (c_put.pc = "done")]
    /\ UNCHANGED <<c_fs, c_put, c_map, CacheRest>>

\* line 30: os.path.exists(entry.json_path)
GetExistsJson ==
    /\ c_get.pc = "exists_json"
    /\ GetGoes(IF Exists(c_fs.json) THEN "exists_md" ELSE "rm_json")
    /\ UNCHANGED <<c_fs, c_put, c_map, CacheRest>>

\* line 30: os.path.exists(entry.md_path)
GetExistsMd ==
    /\ c_get.pc = "exists_md"
    /\ GetGoes(IF Exists(c_fs.md) THEN "read_json" ELSE "rm_json")
    /\ UNCHANGED <<c_fs, c_put, c_map, CacheRest>>

\* lines 35-36: the json file is opened and read
GetReadJson ==
    /\ c_get.pc = "read_json"
    /\ c_get' = IF Readable(c_fs.json)
                THEN [c_get EXCEPT !.pc = "read_md", !.j = c_fs.json]
                ELSE [c_get EXCEPT !.pc = "rm_json"]
    /\ UNCHANGED <<c_fs, c_put, c_map, CacheRest>>

\* lines 37-39: the markdown file is opened and read; return j, m
GetReadMd ==
    /\ c_get.pc = "read_md"
    /\ c_get' = IF Readable(c_fs.md)
                THEN [c_get EXCEPT !.pc = "returned", !.ret = <<c_get.j, c_fs.md>>]
                ELSE [c_get EXCEPT !.pc = "rm_json"]
    /\ UNCHANGED <<c_fs, c_put, c_map, CacheRest>>

\* lines 66-69, first path: the json file is removed if it exists
GetRemoveJson ==
    /\ c_get.pc = "rm_json"
    /\ c_fs' = [c_fs EXCEPT !.json = None]
    /\ GetGoes("rm_md")
    /\ UNCHANGED <<c_put, c_map, CacheRest>>

\* lines 66-69, second path, then return None
GetRemoveMd ==
    /\ c_get.pc = "rm_md"
    /\ c_fs' = [c_fs EXCEPT !.md = None]
    /\ c_get' = [c_get EXCEPT !.pc = "returned", !.ret = <<>>]
    /\ UNCHANGED <<c_put, c_map, CacheRest>>

CacheConcNext ==
    \/ PutBegin
    \/ PutOpen
    \/ PutReplace
    \/ PutCrash
    \/ GetBegin
    \/ GetExistsJson
    \/ GetExistsMd
    \/ GetReadJson
    \/ GetReadMd
    \/ GetRemoveJson
    \/ GetRemoveMd

SpecCacheConc == CacheConcInit /\ [][CacheConcNext]_vars

\* C16: a get(k) that runs while put(k, j1, m1) replaces an existing entry
\* (j0, m0) returns (j0, m0), (j1, m1) or None, never a pair that mixes the
\* two writes.
C16_NoMixedPair ==
    (c_put.old = OldEntry /\ c_get.pc = "returned")
        => c_get.ret \in {<<>>, <<"j0", "m0">>, <<"j1", "m1">>}

\* C17: if the process is killed at any point inside put(k, j1, m1), the two
\* files of k are both as they were when put began or both hold the new
\* text; none is partially written and the pair is not half old, half new.
C17_CrashAtomic ==
    [][ PutCrash => c_fs \in {c_put.old, NewEntry} ]_vars

\* C19: once put(k, j, m) has returned, and with no later put or invalidate,
\* every get(k) that is then issued returns (j, m), also when get(k) calls of
\* another process overlapped the put.
C19_PutIsKept ==
    (c_get.fresh /\ c_get.pc = "returned") => c_get.ret = <<NewEntry.json, NewEntry.md>>

(***************************************************************************)
(* SpecKeys: the file names the three stores compute for two keys          *)
(* (CacheBackend.key_to_paths, CircuitBreaker._path, the rate limiter's    *)
(* _safe_key and path), on POSIX where os.sep is "/".                      *)
(***************************************************************************)
\* str.replace(old, new) for a one-character old
RECURSIVE ReplaceAll(_, _, _)
ReplaceAll(s, old, new) ==
    IF Len(s) = 0 THEN ""
    ELSE (IF SubSeq(s, 1, 1) = old THEN new ELSE SubSeq(s, 1, 1))
         \o ReplaceAll(SubSeq(s, 2, Len(s)), old, new)

\* os.path.join(root, name) / Path(root) / name, for a name without "/"
JoinPath(root, name) == root \o "/" \o name

CacheRoot == ".cache/release_notes"

BreakerRoot == ".cache/release_notes/cb"

RateLimitRoot == ".cache/release_notes/commands"

\* cache_backend.py lines 24-26: the (json, md) paths of a key
key_to_paths(key) ==
    LET base == JoinPath(CacheRoot, ReplaceAll(key, "/", "_")) IN
    {base \o ".json", base \o ".md"}

\* circuit_breaker.py lines 43-45
BreakerPath(name) ==
    LET safe == ReplaceAll(ReplaceAll(name, "/", "#"), "/", "#") IN
    {JoinPath(BreakerRoot, safe \o ".cb.json")}

\* rate_limiter.py lines 14-15
SafeKey(s) == ReplaceAll(ReplaceAll(s, "/", "#"), "/", "#")

\* rate_limiter.py lines 61-62
RateLimitPath(key) == {JoinPath(RateLimitRoot, SafeKey(key) \o ".rl.json")}

Stores == {"cache", "breaker", "rate_limit"}

FilesOf(store, key) ==
    IF store = "cache" THEN key_to_paths(key)
    ELSE IF store = "breaker" THEN BreakerPath(key)
    ELSE RateLimitPath(key)

\* keys and names with and without a path separator: breaker names, cache
\* keys <owner>/<repo>#<pr>#<sha> and rate-limit keys <owner>/<repo>#pr#<n>
KeyUniverse ==
    {"diff", "bedrock", "github_api", "o/r", "o_r", "o#r",
     "o/r_s#1#c", "o_r/s#1#c", "o/r#pr#1", "o/r#pr#2"}

KeysInit ==
    /\ \E st \in Stores, a \in KeyUniverse, b \in KeyUniverse :
          k_pair = [store |-> st, a |-> a, b |-> b]
    /\ k_files = <<>>
    /\ TrimIdle /\ ProcIdle /\ CBIdle
    /\ CCIdle /\ FlowIdle /\ RLIdle /\ CacheIdle /\ ExtIdle

\* the store computes the files of both keys
MapKeys ==
    /\ k_files = <<>>
    /\ k_files' = <<FilesOf(k_pair.store, k_pair.a), FilesOf(k_pair.store, k_pair.b)>>
    /\ UNCHANGED <<k_pair, trimVars, procVars, cbVars, ccVars, flowVars, rlVars,
                   cacheVars, extVars>>

KeysNext == MapKeys

SpecKeys == KeysInit /\ [][KeysNext]_vars

\* C20: no two keys share a file: distinct cache keys map to distinct
\* (json, md) file pairs, distinct breaker names and distinct rate-limit keys
\* to distinct state files.
C20_NoSharedFile ==
    (k_files # <<>> /\ k_pair.a # k_pair.b) => k_files[1] \cap k_files[2] = {}

(***************************************************************************)
(* SpecGen: the generate command from the normalized draft to its exit     *)
(* (utils/idempotency.py and agents/release_notes_agent.py, lines 375-438).*)
(***************************************************************************)
\* idempotency.py lines 10-16; <<>> stands for the ValueError
idempotency_key(draft) ==
    LET repo == IF draft.repo = None THEN "" ELSE draft.repo
        pr   == draft.pr_number
        sha  == IF draft.head_sha = None THEN "" ELSE draft.head_sha
    IN IF repo = "" \/ pr = <<>> \/ pr = <<0>> \/ sha = ""
       THEN <<>>
       ELSE <<repo \o "#" \o ToString(pr[1]) \o "#" \o sha>>

\* a guard that lets every run through
HasKey_Always(key) == TRUE

\* `if key:` (lines 382, 393, 404, 410)
HasKey(key) == key # <<>> /\ key # <<"">>

Repos == {None, "", "o/r"}

PrNumbers == {<<>>, <<0>>, <<7>>}

Shas == {None, "", "c0ffee1"}

GenFlags == {"cache_only", "no_cache", "post_comment", "skip_gh_auth", "pr_context"}

GenInit ==
    /\ \E r \in Repos, n \in PrNumbers, h \in Shas :
          g_draft = [repo |-> r, pr_number |-> n, head_sha |-> h]
    /\ g_args \in SUBSET GenFlags
    /\ g_key = <<>>
    /\ g_pc = "key"
    /\ g_ops = {}
    /\ GenAlone

\* lines 375-380: key = idempotency_key(draft_norm), None when it raises
GenKey ==
    /\ g_pc = "key"
    /\ g_key' = idempotency_key(g_draft)
    /\ g_pc' = IF "cache_only" \in g_args THEN "cache_only" ELSE "lookup"
    /\ UNCHANGED <<g_draft, g_args, g_ops, GenRest>>

\* lines 381-392: --cache-only prints the cached pair or fails with a miss
GenCacheOnly ==
    /\ g_pc = "cache_only"
    /\ g_ops' = IF HasKey(g_key) THEN g_ops \cup {"get"} ELSE g_ops
    /\ g_pc' = "exit"
    /\ UNCHANGED <<g_draft, g_args, g_key, GenRest>>

\* lines 393-401: the cache is consulted; a hit ends the run
GenLookup(hit) ==
    /\ g_pc = "lookup"
    /\ IF HasKey(g_key) /\ "no_cache" \notin g_args
       THEN /\ g_ops' = g_ops \cup {"get"}
            /\ g_pc' = IF hit THEN "exit" ELSE "store"
       ELSE /\ g_ops' = g_ops
            /\ g_pc' = "store"
    /\ UNCHANGED <<g_draft, g_args, g_key, GenRest>>

\* lines 402-408: render and cache.put
GenStore ==
    /\ g_pc = "store"
    /\ g_ops' = IF HasKey(g_key) THEN g_ops \cup {"put"} ELSE g_ops
    /\ g_pc' = "comment"
    /\ UNCHANGED <<g_draft, g_args, g_key, GenRest>>

\* lines 410-438: the preview comment upsert, then the output
GenComment ==
    /\ g_pc = "comment"
    /\ g_ops' = IF /\ "post_comment" \in g_args
                   /\ "cache_only" \notin g_args
                   /\ HasKey(g_key)
                   /\ "skip_gh_auth" \notin g_args
                   /\ "pr_context" \in g_args
                THEN g_ops \cup {"upsert"} ELSE g_ops
    /\ g_pc' = "exit"
    /\ UNCHANGED <<g_draft, g_args, g_key, GenRest>>

GenNext ==
    \/ GenKey
    \/ GenCacheOnly
    \/ \E hit \in BOOLEAN : GenLookup(hit)
    \/ GenStore
    \/ GenComment

SpecGen == GenInit /\ [][GenNext]_vars

AllPresent ==
    /\ g_draft.repo \notin {None, ""}
    /\ g_draft.pr_number \notin {<<>>, <<0>>}
    /\ g_draft.head_sha \notin {None, ""}

\* C21: idempotency_key returns "<repo>#<pr_number>#<head_sha>" when repo,
\* pr_number and head_sha are all present and raises when one is missing
\* (None, empty, or a pr_number of 0); a generate run whose key cannot be
\* derived makes no cache get, no cache put and no comment upsert.
C21_NoKeyNoCache ==
    g_pc # "key" =>
        /\ AllPresent => g_key = <<"o/r#7#c0ffee1">>
        /\ ~AllPresent => (g_key = <<>> /\ g_ops = {})

C21_Witness ==
    /\ g_pc = "exit"
    /\ g_draft = [repo |-> "o/r", pr_number |-> <<7>>, head_sha |-> None]
    /\ g_args = {"post_comment", "pr_context"}
    /\ g_ops = {}

(***************************************************************************)
(* SpecRetry: with_retries (utils/wrap.py).  How each invocation of fn     *)
(* ends is the environment's choice: "ok" or an exception with a code.     *)
(***************************************************************************)
MaxRetryAttempts == 3   \* largest max_attempts drawn

\* the codes classify_exc can give (release_notes_agent.py, _classify)
ErrorCodes == {"TIMEOUT", "RATE_LIMIT", "UNKNOWN"}

RetryInit ==
    /\ \E ma \in 0..MaxRetryAttempts, ro \in SUBSET ErrorCodes :
          r_cfg = [max_attempts |-> ma, retry_on |-> ro]
    /\ r_attempt = 0
    /\ r_hist = <<>>
    /\ r_pc = "loop"
    /\ r_out = None
    /\ RetryAlone

\* line 19: code in retry_on and attempt + 1 < max_attempts
ShouldRetry(code) == code \in r_cfg.retry_on /\ r_attempt + 1 < r_cfg.max_attempts

\* lines 14-23: one turn of the loop, fn ending as `outcome`
RetryTurn(outcome) ==
    /\ r_pc = "loop"
    /\ r_attempt < r_cfg.max_attempts
    /\ r_hist' = Append(r_hist, outcome)
    /\ IF outcome = "ok"
       THEN r_pc' = "returned" /\ r_out' = "value" /\ r_attempt' = r_attempt
       ELSE IF ShouldRetry(outcome)
       THEN r_pc' = "loop" /\ r_out' = r_out /\ r_attempt' = r_attempt + 1
       ELSE r_pc' = "raised" /\ r_out' = outcome /\ r_attempt' = r_attempt
    /\ UNCHANGED <<r_cfg, RetryRest>>

\* line 14 false: the loop is left and the function ends without a return
\* statement
RetryFallsOut ==
    /\ r_pc = "loop"
    /\ ~(r_attempt < r_cfg.max_attempts)
    /\ r_pc' = "returned"
    /\ r_out' = None
    /\ UNCHANGED <<r_cfg, r_attempt, r_hist, RetryRest>>

RetryNext ==
    \/ \E outcome \in ErrorCodes \cup {"ok"} : RetryTurn(outcome)
    \/ RetryFallsOut

SpecRetry == RetryInit /\ [][RetryNext]_vars

\* C22: with_retries invokes fn at least once and at most max_attempts
\* times; a failed invocation is followed by another only if its code is in
\* retry_on and fewer than max_attempts invocations were made, otherwise that
\* exception is raised at once; the value of the first successful invocation
\* is returned, fn is not invoked after it, and with_retries never returns
\* without a successful invocation.
C22_RetryContract ==
    /\ Len(r_hist) <= Max(r_cfg.max_attempts, 0)
    /\ \A i \in 1..(Len(r_hist) - 1) : r_hist[i] \in r_cfg.retry_on
    /\ r_pc = "returned" =>
          (Len(r_hist) >= 1 /\ r_hist[Len(r_hist)] = "ok" /\ r_out = "value")
    /\ r_pc = "raised" =>
          /\ Len(r_hist) >= 1
          /\ r_out = r_hist[Len(r_hist)]
          /\ r_out # "ok"
          /\ (r_out \notin r_cfg.retry_on \/ Len(r_hist) = r_cfg.max_attempts)

\* the same for max_attempts >= 1
C22_ContractWhenPositive ==
    r_cfg.max_attempts >= 1 => C22_RetryContract

(***************************************************************************)
(* SpecWatchdog: with_watchdog (utils/wrap.py).  How long fn takes, how it *)
(* ends and how on_timeout ends are the environment's choice.              *)
(***************************************************************************)
MaxRuntime == 3         \* largest max_runtime_s drawn
MaxElapsed == 4         \* longest run of fn, in seconds

FnValues == {"v1", "v2"}

FnErrors == {"BedrockError", "KeyError"}

WDInit ==
    /\ w_max \in 0..MaxRuntime
    /\ w_elapsed = 0
    /\ w_fn = None
    /\ w_ot = None
    /\ w_log = <<>>
    /\ w_pc = "try"
    /\ w_out = None
    /\ WDAlone

\* the test with >= for >
Exceeded_Inclusive(elapsed) == elapsed >= w_max

\* line 32: elapsed > max_runtime_s
Exceeded(elapsed) == elapsed > w_max

\* lines 27-29: t0 is taken and fn runs to its end
WDRunFn(took, ended) ==
    /\ w_pc = "try"
    /\ w_log' = Append(w_log, "fn")
    /\ w_elapsed' = took
    /\ w_fn' = ended
    /\ w_pc' = "finally"
    /\ UNCHANGED <<w_max, w_ot, w_out, WDRest>>

\* lines 30-37 within the limit: the result is returned, or fn's exception
\* goes on
WDWithinLimit ==
    /\ w_pc = "finally"
    /\ ~Exceeded(w_elapsed)
    /\ w_out' = w_fn
    /\ w_pc' = "ended"
    /\ UNCHANGED <<w_max, w_elapsed, w_fn, w_ot, w_log, WDRest>>

\* lines 32-36 over the limit: on_timeout() is called, and whatever it does
\* the inner finally raises TimeoutError
WDOverLimit(callback) ==
    /\ w_pc = "finally"
    /\ Exceeded(w_elapsed)
    /\ w_log' = Append(w_log, "on_timeout")
    /\ w_ot' = callback
    /\ w_out' = "TimeoutError"
    /\ w_pc' = "ended"
    /\ UNCHANGED <<w_max, w_elapsed, w_fn, WDRest>>

WDNext ==
    \/ \E took \in 0..MaxElapsed, ended \in FnValues \cup FnErrors : WDRunFn(took, ended)
    \/ WDWithinLimit
    \/ \E callback \in {"returned", "raised"} : WDOverLimit(callback)

SpecWatchdog == WDInit /\ [][WDNext]_vars

\* C23: with_watchdog invokes fn exactly once.  Within the limit (elapsed <=
\* max_runtime_s) it returns fn's result or lets fn's exception through and
\* does not call on_timeout; over the limit it calls on_timeout exactly once,
\* after fn has ended, and raises TimeoutError whatever fn and on_timeout did.
C23_WatchdogContract ==
    /\ w_log \in {<<>>, <<"fn">>, <<"fn", "on_timeout">>}
    /\ w_pc = "ended" =>
          IF w_elapsed <= w_max
          THEN w_log = <<"fn">> /\ w_out = w_fn
          ELSE w_log = <<"fn", "on_timeout">> /\ w_out = "TimeoutError"

C23_Witness ==
    /\ w_pc = "ended"
    /\ w_elapsed > w_max
    /\ w_fn \in FnErrors
    /\ w_ot = "raised"
    /\ w_out = "TimeoutError"

(***************************************************************************)
(* Further properties of process(), checked under SpecProc.                *)
(***************************************************************************)
\* the chunking process() builds first, recomputed from its arguments
InitialChunks ==
    BuildChunks(GroupAndOrder([i \in 1..Len(bundle.files) |-> ToProcessedFile(bundle.files[i])]))

\* C24: degradation_reason is "budget" exactly when the initial chunking has
\* a chunk over the hard budget and no more than max_chunks chunks, "chunks"
\* exactly when it has more than max_chunks chunks, "input_truncated" exactly
\* when no degradation step happened and bundle.truncated is true, and absent
\* otherwise (a step to commits_only leaves the reason of the first step);
\* the result's truncated flag equals bundle.truncated.
C24_ReasonOfFirstStep ==
    Returned =>
        LET init == InitialChunks
            over_count == Len(init) > dcfg.max_chunks
            over_hard == \E i \in 1..Len(init) : init[i].tokens_est > dcfg.max_tokens_per_chunk
            reason == Res.degradation_reason
        IN /\ reason = "budget" <=> (over_hard /\ ~over_count)
           /\ reason = "chunks" <=> over_count
           /\ reason = "input_truncated" <=> (Res.degradation = "full" /\ bundle.truncated)
           /\ reason = None <=> (~over_hard /\ ~over_count /\ ~bundle.truncated)
           /\ Res.truncated = bundle.truncated

C24_Witness ==
    /\ Returned
    /\ Res.degradation = "commits_only"
    /\ Res.degradation_reason = "budget"
    /\ bundle.truncated

\* C25: commits_summary is present exactly when the degradation is
\* commits_only; it then holds one entry for each of the first min(20, n) of
\* the n commits, in input order, and the result is exactly one chunk with
\* idx 0, no files, tokens_est 0 and the diagnostic "commits_only", with
\* total_tokens_est = 0.
C25_CommitsOnlyShape ==
    Returned =>
        /\ (Res.commits_summary # <<>>) <=> (Res.degradation = "commits_only")
        /\ Res.degradation = "commits_only" =>
              LET summary == Res.commits_summary[1]
                  n == Len(commits)
              IN /\ Len(summary) = (IF n < 20 THEN n ELSE 20)
                 /\ \A i \in 1..Len(summary) :
                       /\ summary[i].sha_short = SubSeq(commits[i].sha, 1, Len(summary[i].sha_short))
                       /\ summary[i].author_login = commits[i].author_login
                 /\ Len(Res.chunks) = 1
                 /\ Res.chunks[1].idx = 0
                 /\ Res.chunks[1].files = <<>>
                 /\ Res.chunks[1].files_count = 0
                 /\ Res.chunks[1].tokens_est = 0
                 /\ Res.chunks[1].diagnostics = <<"commits_only">>
                 /\ Res.total_tokens_est = 0

C25_Witness ==
    /\ Returned
    /\ Res.degradation = "commits_only"
    /\ Len(commits) > 20
    /\ Len(Res.commits_summary[1]) = 20

(***************************************************************************)
(* DiffFetcher (src/utils/diff_fetcher.py): the caps, the path rules and   *)
(* the split of a unified diff into per-file sections.                     *)
(***************************************************************************)
MAX_FILES == 200
MAX_DIFF_BYTES == 10 * 1024 * 1024

\* Config.TREAT_SVG_AS_TEXT, "1" unless the environment says otherwise
TREAT_SVG_AS_TEXT == TRUE

EndsWith(s, p) == Len(s) >= Len(p) /\ SubSeq(s, Len(s) - Len(p) + 1, Len(s)) = p

\* str.lower() of one character
LowerChar(c) ==
    CASE c = "A" -> "a" [] c = "B" -> "b" [] c = "C" -> "c" [] c = "D" -> "d"
      [] c = "E" -> "e" [] c = "F" -> "f" [] c = "G" -> "g" [] c = "H" -> "h"
      [] c = "I" -> "i" [] c = "J" -> "j" [] c = "K" -> "k" [] c = "L" -> "l"
      [] c = "M" -> "m" [] c = "N" -> "n" [] c = "O" -> "o" [] c = "P" -> "p"
      [] c = "Q" -> "q" [] c = "R" -> "r" [] c = "S" -> "s" [] c = "T" -> "t"
      [] c = "U" -> "u" [] c = "V" -> "v" [] c = "W" -> "w" [] c = "X" -> "x"
      [] c = "Y" -> "y" [] c = "Z" -> "z" [] OTHER -> c

RECURSIVE Lower(_)
Lower(s) == IF s = "" THEN "" ELSE LowerChar(SubSeq(s, 1, 1)) \o Lower(SubSeq(s, 2, Len(s)))

IGNORE_DIRS == {"node_modules", "vendor", "dist", "build", "target", ".next", "out",
                ".venv", "__pycache__", ".git"}

\* the tuple of lines 34-41; its empty member is skipped by `if not ext`
IGNORE_EXTS ==
    {".min.js", ".min.css", ".map", ".lock", ".bundle", ".png", ".jpg", ".jpeg",
     ".gif", ".webp", ".pdf", ".zip", ".bin"}
    \cup (IF TREAT_SVG_AS_TEXT THEN {} ELSE {".svg"})

\* IGNORE_DIRS_RE.search(path): (^|/)(dir)/
is_ignored_path(path) ==
    \/ \E d \in IGNORE_DIRS : StartsWith(path, d \o "/") \/ Contains(path, "/" \o d \o "/")
    \/ \E ext \in IGNORE_EXTS : EndsWith(path, ext)

infer_change_type(path) ==
    LET lower == Lower(path) IN
    IF StartsWith(lower, "docs/") \/ \E e \in {".md", ".rst", ".adoc"} : EndsWith(lower, e)
    THEN "docs"
    ELSE IF \/ StartsWith(lower, "test/") \/ StartsWith(lower, "tests/")
            \/ Contains(path, "_test.") \/ Contains(path, "Test.")
    THEN "tests"
    ELSE IF \/ \E e \in {".yml", ".yaml", ".json", ".toml", ".ini"} : EndsWith(lower, e)
            \/ \E d \in {".github/", ".config/", "config/"} : StartsWith(lower, d)
    THEN "config"
    ELSE IF \E e \in {".csv", ".parquet", ".avro"} : EndsWith(lower, e)
    THEN "data"
    ELSE "code"

\* the positions at which a line of text starts
LineStarts(text) ==
    IF text = "" THEN {}
    ELSE {1} \cup {j + 1 : j \in {k \in 1..(Len(text) - 1) : SubSeq(text, k, k) = "\n"}}

\* count_hunks: the number of lines that start with "@@", None for no patch
count_hunks(patch) ==
    IF patch = None \/ patch = "" THEN <<>>
    ELSE << Cardinality({i \in LineStarts(patch) :
                            i < Len(patch) /\ SubSeq(patch, i, i + 1) = "@@"}) >>

\* str.capitalize() of a file status
Capitalize(status) ==
    CASE status = "added" -> "Added" [] status = "modified" -> "Modified"
      [] status = "removed" -> "Removed" [] status = "renamed" -> "Renamed"
      [] status = "copied" -> "Copied" [] status = "changed" -> "Changed"
      [] status = "unchanged" -> "Unchanged" [] OTHER -> "Other"

summarize_file(diff_file) ==
    IF diff_file.is_binary THEN None
    ELSE Capitalize(diff_file.status) \o " " \o diff_file.filename \o " with "
            \o ToString(diff_file.additions) \o " additions and "
            \o ToString(diff_file.deletions) \o " deletions."
            \o (IF diff_file.hunk_count # <<>>
                THEN " " \o ToString(diff_file.hunk_count[1]) \o " hunks." ELSE "")

RECURSIVE Strip(_)
\* str.strip() for blanks, tabs and carriage returns
Strip(s) ==
    IF s = "" THEN ""
    ELSE IF SubSeq(s, 1, 1) \in {" ", "\t", "\r"} THEN Strip(SubSeq(s, 2, Len(s)))
    ELSE IF SubSeq(s, Len(s), Len(s)) \in {" ", "\t", "\r"} THEN Strip(SubSeq(s, 1, Len(s) - 1))
    ELSE s

GitHeader == "diff --git a/"

\* the places of " b/" in a line that leave both names of the header non-empty
HeaderCuts(line) ==
    {k \in (Len(GitHeader) + 2)..(Len(line) - 3) : SubSeq(line, k, k + 2) = " b/"}

\* the line starts of text at which ^diff --git a/(.+) b/(.+)$ matches
HeaderStarts(text) ==
    {i \in LineStarts(text) :
        LET line == SubSeq(text, i, NextNewline(text, i) - 1)
        IN StartsWith(line, GitHeader) /\ HeaderCuts(line) # {}}

\* a dict as its (key, value) pairs in insertion order
MapHas(m, k) == \E i \in 1..Len(m) : m[i][1] = k
MapGet(m, k) == LET i == CHOOSE j \in 1..Len(m) : m[j][1] = k IN m[i][2]
MapSet(m, k, v) ==
    IF MapHas(m, k) THEN [i \in 1..Len(m) |-> IF m[i][1] = k THEN <<k, v>> ELSE m[i]]
    ELSE Append(m, <<k, v>>)
MapSetDefault(m, k, v) == IF MapHas(m, k) THEN m ELSE Append(m, <<k, v>>)

RECURSIVE SplitSections(_, _, _)
\* the loop of lines 252-259 over the sections that start at the positions hs
SplitSections(text, hs, file_map) ==
    IF hs = {} THEN file_map
    ELSE LET i == CHOOSE j \in hs : \A k \in hs : j <= k
             rest == hs \ {i}
             eol == NextNewline(text, i)
             line == SubSeq(text, i, eol - 1)
             cut == CHOOSE c \in HeaderCuts(line) : \A d \in HeaderCuts(line) : d <= c
             old == SubSeq(line, Len(GitHeader) + 1, cut - 1)
             new == SubSeq(line, cut + 3, Len(line))
             stop == IF rest = {} THEN Len(text)
                     ELSE (CHOOSE j \in rest : \A k \in rest : j <= k) - 1
             body == SubSeq(text, eol, stop)
         IN SplitSections(text, rest,
                MapSetDefault(MapSet(file_map, Strip(new), body), Strip(old), body))

\* _split_unified_by_file: {} for an empty text or a text without a header
split_unified_by_file(unified_text) ==
    IF unified_text = "" THEN <<>>
    ELSE SplitSections(unified_text, HeaderStarts(unified_text), <<>>)

(***************************************************************************)
(* SpecFetch: one fetch() of a DiffFetcher, the data source and the REST   *)
(* client answering each request in any way they can.                      *)
(***************************************************************************)
MaxRecords == 2         \* file records of a short file list

FetchCodes == {"NOT_FOUND", "UNAUTHORIZED", "RATE_LIMIT", "NETWORK", "TIMEOUT", "UNKNOWN"}

SuppliedPatch == "@@ -1 +1 @@\n-a\n+b"

\* a raw file-change record of the data source; patch None: the key is absent
FileRecord(filename, status, previous, patch) ==
    [filename |-> filename, status |-> status, additions |-> 1, deletions |-> 1,
     changes |-> <<>>, previous_filename |-> previous, patch |-> patch]

RecordUniverse ==
    { FileRecord("src/a.py", "modified", None, SuppliedPatch),
      FileRecord("src/a.py", "modified", None, None),
      FileRecord("src/a.py", "modified", None, ""),
      [FileRecord("lib/b.py", "renamed", "old.py", None) EXCEPT !.changes = <<5>>],
      FileRecord("node_modules/x.js", "added", None, None),
      FileRecord("", "added", None, SuppliedPatch) }

\* a list of n records of which one at most (the one at `bare`) has no patch
LongList(n, bare) ==
    [i \in 1..n |-> FileRecord("src/f" \o ToString(i) \o ".py", "modified", None,
                               IF i = bare THEN None ELSE SuppliedPatch)]

FileLists ==
    UNION {[1..n -> RecordUniverse] : n \in 0..MaxRecords}
    \cup {LongList(n, bare) : n \in {MAX_FILES, MAX_FILES + 1}, bare \in {0, 1, MAX_FILES + 1}}

\* what get_pull_request_files() does: a list, or PRDataSourceError with a code
ListReplies ==
    {[code |-> None, files |-> fl] : fl \in FileLists}
    \cup {[code |-> c, files |-> <<>>] : c \in FetchCodes}

UnifiedTexts ==
    { "",
      "Binary files differ\n",
      "diff --git a/src/a.py b/src/a.py\n@@ -1 +1 @@\n-a\n+b\n",
      "diff --git a/old.py b/lib/b.py\n@@ -2 +2 @@\n-c\n+d\ndiff --git a/src/a.py b/src/a.py" }

\* the sizes drawn for a response: as short as its text, at the cap, one over
BodySizes(text) == {Len(text), MAX_DIFF_BYTES, MAX_DIFF_BYTES + 1}

NoReply == [status |-> None, text |-> "", bytes |-> 0]

\* what one GET of the REST client does: a response (its text, of which the
\* model keeps the part from the first header on, and its size in bytes) or
\* an exception of requests
HttpReplies ==
    UNION {{[status |-> "200", text |-> t, bytes |-> b] : b \in BodySizes(t)} : t \in UnifiedTexts}
    \cup {[NoReply EXCEPT !.status = s] :
            s \in {"401", "403", "404", "429", "500",
                   "Timeout", "ConnectionError", "TooManyRedirects"}}

\* what _fetch_unified_diff meets: no REST client at all, or the reply to the
\* PR-diff request and, after a 404, the reply to the compare request
UnifiedReplies ==
    {[client |-> FALSE, first |-> NoReply, second |-> NoReply]}
    \cup {[client |-> TRUE, first |-> r1, second |-> NoReply] :
            r1 \in {r \in HttpReplies : r.status # "404"}}
    \cup {[client |-> TRUE, first |-> [NoReply EXCEPT !.status = "404"], second |-> r2] :
            r2 \in HttpReplies}

Raised(exc, code) == [kind |-> "raise", exc |-> exc, code |-> code, text |-> "", bytes |-> 0]
Text(r) == [kind |-> "return", exc |-> None, code |-> None, text |-> r.text, bytes |-> r.bytes]

\* lines 229-240: what one response or exception becomes; a 404 of the first
\* request is answered by the second request
AfterReply(r, is_second) ==
    CASE r.status = "200" -> Text(r)
      [] r.status \in {"401", "403"} -> Raised("DiffFetchError", "UNAUTHORIZED")
      [] r.status = "404" /\ is_second -> Raised("DiffFetchError", "NOT_FOUND")
      [] r.status = "429" -> Raised("DiffFetchError", "RATE_LIMIT")
      [] r.status = "Timeout" -> Raised("DiffFetchError", "TIMEOUT")
      [] r.status = "ConnectionError" -> Raised("DiffFetchError", "NETWORK")
      [] r.status = "TooManyRedirects" -> Raised("TooManyRedirects", None)
      [] OTHER -> Raised("DiffFetchError", "UNKNOWN")

\* _fetch_unified_diff, lines 196-240
fetch_unified_diff(reply) ==
    IF ~reply.client THEN Raised("DiffFetchError", "UNKNOWN")
    ELSE IF reply.first.status = "404" THEN AfterReply(reply.second, TRUE)
    ELSE AfterReply(reply.first, FALSE)

\* the file cap without its last place
OverFileCap_Inclusive(n) == n >= MAX_FILES

\* line 115: len(files_json) > MAX_FILES
OverFileCap(n) == n > MAX_FILES

\* line 130: unified_total_bytes > MAX_DIFF_BYTES
OverByteCap(bytes) == bytes > MAX_DIFF_BYTES

\* line 121: any(f.get("patch") in (None, "") for f in files_json)
NeedUnified(files_json) ==
    \E i \in 1..Len(files_json) : files_json[i].patch \in {None, ""}

\* lines 142-179: the DiffFile of one record
BuildFile(f, unified_map) ==
    LET raw_patch == f.patch
        found == raw_patch = None /\ MapHas(unified_map, f.filename)
        patch == IF raw_patch # None THEN raw_patch
                 ELSE IF found THEN MapGet(unified_map, f.filename) ELSE None
        is_binary == IF raw_patch # None THEN FALSE
                     ELSE IF found THEN (IF patch # "" THEN FALSE ELSE TRUE)
                     ELSE TRUE
        diff_file == [filename |-> f.filename,
                      status |-> f.status,
                      additions |-> f.additions,
                      deletions |-> f.deletions,
                      changes |-> IF f.changes = <<>> THEN f.additions + f.deletions
                                  ELSE f.changes[1],
                      previous_filename |-> f.previous_filename,
                      is_binary |-> is_binary,
                      change_type |-> infer_change_type(f.filename),
                      patch |-> patch,
                      hunk_count |-> count_hunks(patch),
                      summary |-> None]
    IN [diff_file EXCEPT !.summary = summarize_file(diff_file)]

\* line 143: the records the loop skips
Skipped(f) == f.filename = "" \/ is_ignored_path(f.filename)

\* the loop of lines 141-179
BuildFiles(files_json, unified_map) ==
    LET kept == SelectSeq(files_json, LAMBDA f : ~Skipped(f))
    IN [i \in 1..Len(kept) |-> BuildFile(kept[i], unified_map)]

RECURSIVE SumRange(_, _, _, _)
\* files[lo][field] + ... + files[hi][field]
SumRange(files, field, lo, hi) ==
    IF lo > hi THEN 0
    ELSE IF lo = hi THEN files[lo][field]
    ELSE LET mid == (lo + hi) \div 2
         IN SumRange(files, field, lo, mid) + SumRange(files, field, mid + 1, hi)

\* the running totals of lines 163-165
SumOf(files, field) == SumRange(files, field, 1, Len(files))

NoBundle == <<>>
Outcome(kind, exc, code, returned) ==
    <<[kind |-> kind, exc |-> exc, code |-> code, bundle |-> returned]>>

FetchInit ==
    /\ FetchAlone
    /\ \E b \in {"", "b1"}, h \in {"", "h1"} :
          f_args = [pr_number |-> 7, base_sha |-> b, head_sha |-> h]
    /\ f_initialized = FALSE
    /\ f_init_reply = None
    /\ f_list_reply = <<>>
    /\ f_uni_reply = <<>>
    /\ f_files_json = <<>>
    /\ f_truncated = FALSE
    /\ f_diag = <<>>
    /\ f_umap = <<>>
    /\ f_pc = "start"
    /\ f_out = <<>>

\* lines 99-100: an empty base or head SHA
FetchRejectShas ==
    /\ f_pc = "start"
    /\ f_args.base_sha = "" \/ f_args.head_sha = ""
    /\ f_out' = Outcome("raise", "DiffFetchError", "NOT_FOUND", NoBundle)
    /\ f_pc' = "done"
    /\ UNCHANGED <<f_args, f_initialized, f_init_reply, f_list_reply, f_uni_reply,
                   f_files_json, f_truncated, f_diag, f_umap, FetchRest>>

\* line 102 and lines 93-96: data_source.initialize() returns, or raises its
\* PRDataSourceError("Both MCP and GitHub REST clients failed to initialize")
FetchEnsureInitialized ==
    /\ f_pc = "start"
    /\ f_args.base_sha # "" /\ f_args.head_sha # ""
    /\ \E reply \in {"ok", "PRDataSourceError"} :
          /\ f_init_reply' = reply
          /\ IF reply = "ok"
             THEN /\ f_initialized' = TRUE
                  /\ f_pc' = "list"
                  /\ f_out' = f_out
             ELSE /\ f_initialized' = FALSE
                  /\ f_pc' = "done"
                  /\ f_out' = Outcome("raise", "PRDataSourceError", "UNKNOWN", NoBundle)
    /\ UNCHANGED <<f_args, f_list_reply, f_uni_reply, f_files_json, f_truncated,
                   f_diag, f_umap, FetchRest>>

\* lines 104-124: the file list, the early file cap, need_unified
FetchListFiles ==
    /\ f_pc = "list"
    /\ \E reply \in ListReplies :
          /\ f_list_reply' = <<reply>>
          /\ IF reply.code # None
             THEN /\ f_out' = Outcome("raise", "DiffFetchError", reply.code, NoBundle)
                  /\ f_pc' = "done"
                  /\ UNCHANGED <<f_files_json, f_truncated, f_diag>>
             ELSE LET n == Len(reply.files)
                      capped == IF OverFileCap(n) THEN SubSeq(reply.files, 1, MAX_FILES)
                                ELSE reply.files
                  IN /\ f_files_json' = capped
                     /\ f_truncated' = OverFileCap(n)
                     /\ f_diag' = IF OverFileCap(n)
                                  THEN <<"File cap hit: " \o ToString(n) \o " > "
                                            \o ToString(MAX_FILES)>>
                                  ELSE <<>>
                     /\ f_pc' = IF NeedUnified(capped) THEN "unified" ELSE "build"
                     /\ f_out' = f_out
    /\ UNCHANGED <<f_args, f_initialized, f_init_reply, f_uni_reply, f_umap, FetchRest>>

\* lines 125-138: the unified diff, its size cap, the per-file map
FetchUnifiedDiff ==
    /\ f_pc = "unified"
    /\ \E reply \in UnifiedReplies :
          LET got == fetch_unified_diff(reply) IN
          /\ f_uni_reply' = <<reply>>
          /\ CASE got.kind = "return" ->
                    /\ f_truncated' = (f_truncated \/ OverByteCap(got.bytes))
                    /\ f_diag' = IF OverByteCap(got.bytes)
                                 THEN Append(f_diag, "Unified diff size cap hit: "
                                        \o ToString(got.bytes) \o " bytes > "
                                        \o ToString(MAX_DIFF_BYTES))
                                 ELSE f_diag
                    /\ f_umap' = split_unified_by_file(got.text)
                    /\ f_pc' = "build"
                    /\ f_out' = f_out
               [] got.kind = "raise" /\ got.exc = "DiffFetchError" ->
                    /\ f_diag' = Append(f_diag, "Unified diff unavailable: " \o got.code)
                    /\ f_pc' = "build"
                    /\ UNCHANGED <<f_truncated, f_umap, f_out>>
               [] OTHER ->
                    /\ f_out' = Outcome("raise", got.exc, got.code, NoBundle)
                    /\ f_pc' = "done"
                    /\ UNCHANGED <<f_truncated, f_diag, f_umap>>
    /\ UNCHANGED <<f_args, f_initialized, f_init_reply, f_list_reply, f_files_json, FetchRest>>

\* lines 140-193: the files, the totals, the bundle
FetchBuild ==
    /\ f_pc = "build"
    /\ LET diff_files == BuildFiles(f_files_json, f_umap)
       IN f_out' = Outcome("return", None, None,
                     << [pr_number |-> f_args.pr_number,
                         base_sha |-> f_args.base_sha,
                         head_sha |-> f_args.head_sha,
                         total_files |-> Len(diff_files),
                         total_additions |-> SumOf(diff_files, "additions"),
                         total_deletions |-> SumOf(diff_files, "deletions"),
                         total_changes |-> SumOf(diff_files, "changes"),
                         truncated |-> f_truncated,
                         files |-> diff_files,
                         diagnostics |-> f_diag] >>)
    /\ f_pc' = "done"
    /\ UNCHANGED <<f_args, f_initialized, f_init_reply, f_list_reply, f_uni_reply,
                   f_files_json, f_truncated, f_diag, f_umap, FetchRest>>

FetchNext ==
    \/ FetchRejectShas
    \/ FetchEnsureInitialized
    \/ FetchListFiles
    \/ FetchUnifiedDiff
    \/ FetchBuild

SpecFetch == FetchInit /\ [][FetchNext]_vars

FetchDone == f_pc = "done"
FetchReturned == f_pc = "done" /\ f_out[1].kind = "return"
FetchRaised == f_pc = "done" /\ f_out[1].kind = "raise"
Bundle == f_out[1].bundle[1]

\* the file list the data source returned, <<>> when it raised or was not asked
ListedFiles ==
    IF f_list_reply # <<>> /\ f_list_reply[1].code = None THEN f_list_reply[1].files ELSE <<>>

\* the unified-diff requests were made and ended in a response with a text
UnifiedFetched ==
    f_uni_reply # <<>> /\ fetch_unified_diff(f_uni_reply[1]).kind = "return"

UnifiedBytes == fetch_unified_diff(f_uni_reply[1]).bytes

NotesCap(notes, prefix) ==
    \E i \in 1..Len(notes) : StartsWith(notes[i], prefix)

\* C26: fetch() never returns more than 200 files; bundle.truncated is true
\* exactly when the data source returned more than 200 file records or the
\* fetched unified diff is larger than 10 MB; in both cases fetch() returns
\* a bundle that carries a diagnostic of the cap.
C26_CapsTruncate ==
    LET many == Len(ListedFiles) > MAX_FILES
        big == UnifiedFetched /\ UnifiedBytes > MAX_DIFF_BYTES
    IN /\ FetchReturned =>
            /\ Len(Bundle.files) <= MAX_FILES
            /\ Bundle.total_files = Len(Bundle.files)
            /\ Bundle.truncated <=> (many \/ big)
            /\ many => NotesCap(Bundle.diagnostics, "File cap hit")
            /\ big => NotesCap(Bundle.diagnostics, "Unified diff size cap hit")
       /\ (FetchDone /\ (many \/ big) /\ (f_uni_reply = <<>> \/ UnifiedFetched)) => FetchReturned

C26_Witness ==
    /\ FetchReturned
    /\ Len(ListedFiles) > MAX_FILES
    /\ UnifiedFetched /\ UnifiedBytes > MAX_DIFF_BYTES
    /\ Len(Bundle.files) = MAX_FILES
    /\ Bundle.truncated

\* the records of files_json the build loop keeps, in order
KeptRecords == SelectSeq(f_files_json, LAMBDA f : f.filename # "" /\ ~is_ignored_path(f.filename))

\* C27: every DiffFile returned by fetch() has is_binary = true => patch = None;
\* a file whose per-file patch was omitted (absent or empty) ends with the
\* patch of the unified-diff map and is_binary = false when the map has an
\* entry for its filename, and with is_binary = true and no patch otherwise;
\* a file whose per-file patch was supplied keeps it, with is_binary = false.
C27_BinaryHasNoPatch ==
    FetchReturned =>
        /\ Len(Bundle.files) = Len(KeptRecords)
        /\ \A i \in 1..Len(Bundle.files) :
              LET file == Bundle.files[i]
                  record == KeptRecords[i]
              IN /\ file.is_binary => file.patch = None
                 /\ record.patch \in {None, ""} =>
                       IF MapHas(f_umap, record.filename)
                       THEN file.patch = MapGet(f_umap, record.filename) /\ ~file.is_binary
                       ELSE file.is_binary /\ file.patch = None
                 /\ record.patch \notin {None, ""} =>
                       file.patch = record.patch /\ ~file.is_binary

\* the same for the files whose patch key is absent and whose entry of the
\* map, if there is one, is not empty
C27_WhenAbsentAndNonEmpty ==
    FetchReturned =>
        /\ Len(Bundle.files) = Len(KeptRecords)
        /\ \A i \in 1..Len(Bundle.files) :
              LET file == Bundle.files[i]
                  record == KeptRecords[i]
                  found == MapHas(f_umap, record.filename)
              IN /\ (record.patch = None /\ found /\ MapGet(f_umap, record.filename) # "") =>
                       file.patch = MapGet(f_umap, record.filename) /\ ~file.is_binary
                 /\ (record.patch = None /\ ~found) => file.is_binary /\ file.patch = None
                 /\ record.patch \notin {None, ""} =>
                       file.patch = record.patch /\ ~file.is_binary

\* C28: fetch() never swallows a failure: when the initialisation of the data
\* source, the file-list request or the unified-diff requests fail, or
\* base_sha or head_sha is empty, fetch() raises a DiffFetchError whose code
\* is one of NOT_FOUND, UNAUTHORIZED, RATE_LIMIT, NETWORK, TIMEOUT, UNKNOWN;
\* it returns no bundle after a failure and lets no other exception escape.
C28_NoFailureSwallowed ==
    FetchDone =>
        LET failed == \/ f_args.base_sha = "" \/ f_args.head_sha = ""
                      \/ f_init_reply = "PRDataSourceError"
                      \/ f_list_reply # <<>> /\ f_list_reply[1].code # None
                      \/ f_uni_reply # <<>> /\ ~UnifiedFetched
            classified == /\ FetchRaised
                          /\ f_out[1].exc = "DiffFetchError"
                          /\ f_out[1].code \in FetchCodes
        IN /\ failed => classified
           /\ FetchRaised => classified

\* the same for an empty SHA and for a failure of the file-list request
C28_ListAndShaFailures ==
    FetchDone =>
        ((\/ f_args.base_sha = "" \/ f_args.head_sha = ""
          \/ f_list_reply # <<>> /\ f_list_reply[1].code # None)
         => /\ FetchRaised
            /\ f_out[1].exc = "DiffFetchError"
            /\ f_out[1].code \in FetchCodes)

(***************************************************************************)
(* SpecStateFile: the breaker and the limiter called on a state file of    *)
(* any content: missing, not JSON, JSON that is no object, or an object    *)
(* whose fields are absent, null, or hold a value of another type.         *)
(***************************************************************************)
MaxStateCalls == 3      \* calls on the state file in one behaviour
MaxStateTime  == 4      \* last clock value of these behaviours

\* a JSON value of a field: the key absent, a number, a string, null
JAbsent == [t |-> "absent", n |-> 0, s |-> ""]
JNull   == [t |-> "null", n |-> 0, s |-> ""]
JInt(n) == [t |-> "int", n |-> n, s |-> ""]
JStr(s) == [t |-> "str", n |-> 0, s |-> s]

\* int(data.get(key, default)): <<n>>, or <<>> for a TypeError or ValueError
IntOf(j, default) ==
    CASE j.t = "absent" -> <<default>>
      [] j.t = "int" -> <<j.n>>
      [] OTHER -> <<>>

SFConfig == [failure_threshold |-> 2, recovery_time_s |-> 2, half_open_max_calls |-> 1,
             max_attempts |-> 2, window_seconds |-> 2]

FieldValues == {JAbsent, JNull, JInt(0), JInt(2), JStr("x")}
StateValues == {JAbsent, JInt(7), JStr("CLOSED"), JStr("OPEN"), JStr("HALF_OPEN")}

CBObject(st, fl, ts, hoc) ==
    [store |-> "cb", kind |-> "object", state |-> st, failures |-> fl, ts_open |-> ts,
     half_open_calls |-> hoc, start |-> JAbsent, count |-> JAbsent]

RLObject(start, count) ==
    [store |-> "rl", kind |-> "object", state |-> JAbsent, failures |-> JAbsent,
     ts_open |-> JAbsent, half_open_calls |-> JAbsent, start |-> start, count |-> count]

\* a file that is missing, not JSON, a JSON list or the JSON null
NoObject(store, kind) == [CBObject(JAbsent, JAbsent, JAbsent, JAbsent)
                            EXCEPT !.store = store, !.kind = kind]

OtherKinds == {"missing", "garbage", "list", "null"}

StateFiles ==
    {CBObject(st, fl, ts, hoc) : st \in StateValues, fl \in FieldValues,
                                 ts \in FieldValues, hoc \in FieldValues}
    \cup {RLObject(start, count) : start \in FieldValues, count \in FieldValues}
    \cup {NoObject(store, kind) : store \in {"cb", "rl"}, kind \in OtherKinds}

\* _load, lines 47-54: the default for a missing or unparsable file, else
\* whatever json.loads returned
cb_load(file) ==
    IF file.kind \in {"missing", "garbage"}
    THEN CBObject(JStr("CLOSED"), JInt(0), JInt(0), JInt(0))
    ELSE file

Ended(op, raised, allowed, reason) ==
    <<[op |-> op, raised |-> raised, allowed |-> allowed, reason |-> reason]>>

\* a call: how it ended and the file it left
Call(op, raised, allowed, reason, file) ==
    [call |-> Ended(op, raised, allowed, reason), file |-> file]

\* a dict on disk after _save
Saved(data) == [data EXCEPT !.kind = "object"]

\* allow(), lines 70-91
cb_allow(file, t_now) ==
    LET data == cb_load(file) IN
    IF data.kind # "object" THEN Call("allow", TRUE, FALSE, "AttributeError", file)
    ELSE IF data.state = JStr("OPEN")
    THEN LET ts == IntOf(data.ts_open, 0) IN
         IF ts = <<>> THEN Call("allow", TRUE, FALSE, "int", file)
         ELSE IF t_now - ts[1] >= SFConfig.recovery_time_s
         THEN Call("allow", FALSE, TRUE, "",
                   Saved([data EXCEPT !.state = JStr("HALF_OPEN"), !.half_open_calls = JInt(0)]))
         ELSE Call("allow", FALSE, FALSE, "", file)
    ELSE IF data.state = JStr("HALF_OPEN")
    THEN LET hoc == IntOf(data.half_open_calls, 0) IN
         IF hoc = <<>> THEN Call("allow", TRUE, FALSE, "int", file)
         ELSE IF hoc[1] < SFConfig.half_open_max_calls
         THEN Call("allow", FALSE, TRUE, "",
                   Saved([data EXCEPT !.half_open_calls = JInt(hoc[1] + 1)]))
         ELSE Call("allow", FALSE, FALSE, "", file)
    ELSE Call("allow", FALSE, TRUE, "", file)

\* record_success(), lines 93-96
cb_record_success(file) ==
    LET data == cb_load(file) IN
    IF data.kind # "object" THEN Call("record_success", TRUE, FALSE, "AttributeError", file)
    ELSE Call("record_success", FALSE, FALSE, "",
              Saved([data EXCEPT !.state = JStr("CLOSED"), !.failures = JInt(0),
                                 !.ts_open = JInt(0), !.half_open_calls = JInt(0)]))

\* record_failure(), lines 98-106
cb_record_failure(file, t_now) ==
    LET data == cb_load(file) IN
    IF data.kind # "object" THEN Call("record_failure", TRUE, FALSE, "AttributeError", file)
    ELSE LET was == IntOf(data.failures, 0) IN
         IF was = <<>> THEN Call("record_failure", TRUE, FALSE, "int", file)
         ELSE LET failures == was[1] + 1
                  counted == [data EXCEPT !.failures = JInt(failures)]
              IN Call("record_failure", FALSE, FALSE, "",
                      Saved(IF failures >= SFConfig.failure_threshold
                            THEN [counted EXCEPT !.state = JStr("OPEN"),
                                                 !.ts_open = JInt(t_now),
                                                 !.half_open_calls = JInt(0)]
                            ELSE counted))

\* _read_state, lines 30-39: (0, 0) for whatever goes wrong
read_state(file) ==
    IF file.kind # "object" THEN <<0, 0>>
    ELSE LET start == IntOf(file.start, 0)
             count == IntOf(file.count, 0)
         IN IF start = <<>> \/ count = <<>> THEN <<0, 0>> ELSE <<start[1], count[1]>>

\* check_and_update_rate_limit, lines 52-78
rl_check_and_update(file, t_now) ==
    LET got == read_state(file) IN
    IF got = <<>> THEN Call("check_and_update", TRUE, FALSE, "Exception", file)
    ELSE LET start == got[1]
             count == got[2]
         IN IF start <= 0 \/ t_now - start >= SFConfig.window_seconds
            THEN Call("check_and_update", FALSE, TRUE, "new_window",
                      RLObject(JInt(t_now), JInt(1)))
            ELSE IF count < SFConfig.max_attempts
            THEN Call("check_and_update", FALSE, TRUE, "ok",
                      RLObject(JInt(start), JInt(count + 1)))
            ELSE Call("check_and_update", FALSE, FALSE, "rate_limited", file)

SFInit ==
    /\ SFAlone
    /\ s_file \in StateFiles
    /\ s_now = 1
    /\ s_call = <<>>
    /\ s_n = 0

SFDo(done) ==
    /\ s_n < MaxStateCalls
    /\ s_call' = done.call
    /\ s_file' = done.file
    /\ s_n' = s_n + 1
    /\ UNCHANGED <<s_now, SFRest>>

SFAllow == s_file.store = "cb" /\ SFDo(cb_allow(s_file, s_now))

SFRecordSuccess == s_file.store = "cb" /\ SFDo(cb_record_success(s_file))

SFRecordFailure == s_file.store = "cb" /\ SFDo(cb_record_failure(s_file, s_now))

SFCheckAndUpdate == s_file.store = "rl" /\ SFDo(rl_check_and_update(s_file, s_now))

SFTick ==
    /\ s_now < MaxStateTime
    /\ s_now' = s_now + 1
    /\ UNCHANGED <<s_file, s_call, s_n, SFRest>>

SFNext ==
    \/ SFAllow
    \/ SFRecordSuccess
    \/ SFRecordFailure
    \/ SFCheckAndUpdate
    \/ SFTick

SpecStateFile == SFInit /\ [][SFNext]_vars

\* a state file whose read fails or yields less than the state: missing, not
\* JSON, no object, or an object with a field absent or of another type
Damaged(file) ==
    \/ file.kind # "object"
    \/ /\ file.store = "cb"
       /\ \/ file.state \notin {JStr("CLOSED"), JStr("OPEN"), JStr("HALF_OPEN")}
          \/ \E v \in {file.failures, file.ts_open, file.half_open_calls} : v.t # "int"
    \/ /\ file.store = "rl"
       /\ \E v \in {file.start, file.count} : v.t # "int"

\* a step that is a call on the state file
StateCall == s_n' = s_n + 1

\* C29: whatever the content of the state file (missing, unparsable, or JSON
\* with missing or ill-typed fields), allow(), record_success(),
\* record_failure() and check_and_update never raise; the breaker behaves as
\* CLOSED with failures = 0 (allow() grants, record_failure() counts 1) and
\* the limiter starts a new window and allows the call.
C29_ReadFailuresAreSoft ==
    [][ (StateCall /\ Damaged(s_file)) =>
           LET call == s_call'[1] IN
           /\ ~call.raised
           /\ call.op = "allow" => call.allowed
           /\ call.op = "record_failure" => s_file'.failures = JInt(1)
           /\ call.op = "check_and_update" => call.allowed /\ call.reason = "new_window"
      ]_vars

\* the same for a file that is missing or is not JSON, and, for the limiter,
\* no exception and a granted call on every damaged file
C29_MissingOrUnparsable ==
    [][ (StateCall /\ Damaged(s_file)) =>
           LET call == s_call'[1] IN
           /\ s_file.kind \in {"missing", "garbage"} =>
                 /\ ~call.raised
                 /\ call.op = "allow" => call.allowed
                 /\ call.op = "record_failure" => s_file'.failures = JInt(1)
                 /\ call.op = "check_and_update" => call.allowed /\ call.reason = "new_window"
           /\ call.op = "check_and_update" => ~call.raised /\ call.allowed
      ]_vars

(***************************************************************************)
(* SpecComment: runs of the agent for one PR and one idempotency key, each *)
(* calling upsert_preview_comment and then save_comment_id.  GitHub        *)
(* answers every request in any way it can; users may delete comments.     *)
(***************************************************************************)
MaxUpserts == 3         \* calls of upsert_preview_comment in one behaviour
MaxDeletes == 1         \* comments deleted by users in one behaviour

AgentRuns == {"p", "q"}

InFlight(r) == cm_pc[r] \notin {"idle", "failed"}

CmInit ==
    /\ CmAlone
    /\ cm_comments = {}
    /\ cm_next = 1
    /\ cm_persisted = 0
    /\ cm_pc = [r \in AgentRuns |-> "idle"]
    /\ cm_id = [r \in AgentRuns |-> 0]
    /\ cm_ret = [r \in AgentRuns |-> <<>>]
    /\ cm_calls = 0
    /\ cm_deleted = 0
    /\ cm_seen = [update_failed |-> FALSE, overlapped |-> FALSE]

\* lines 203-206: a call begins
CmStart(r) ==
    /\ cm_pc[r] \in {"idle", "failed"}
    /\ cm_calls < MaxUpserts
    /\ cm_calls' = cm_calls + 1
    /\ cm_pc' = [cm_pc EXCEPT ![r] = "find"]
    /\ cm_id' = [cm_id EXCEPT ![r] = 0]
    /\ cm_ret' = [cm_ret EXCEPT ![r] = <<>>]
    /\ cm_seen' = [cm_seen EXCEPT !.overlapped = @ \/ \E o \in AgentRuns \ {r} : InFlight(o)]
    /\ UNCHANGED <<cm_comments, cm_next, cm_persisted, cm_deleted, CmRest>>

\* find_existing_comment, lines 147-159: the persisted id, kept if the list
\* shows a marked comment of that id; a failed list is passed over
CmFindPersisted(r) ==
    /\ cm_pc[r] = "find"
    /\ \E listed \in BOOLEAN :
          IF cm_persisted # 0 /\ listed /\ cm_persisted \in cm_comments
          THEN /\ cm_id' = [cm_id EXCEPT ![r] = cm_persisted]
               /\ cm_pc' = [cm_pc EXCEPT ![r] = "update"]
          ELSE /\ cm_id' = cm_id
               /\ cm_pc' = [cm_pc EXCEPT ![r] = "search"]
    /\ UNCHANGED <<cm_comments, cm_next, cm_persisted, cm_ret, cm_calls, cm_deleted,
                   cm_seen, CmRest>>

\* the first comment of a list that carries a marker
FirstMarked(comments) == CHOOSE c \in comments : \A d \in comments : c <= d

\* find_existing_comment, lines 160-166: the list and the search for a marker
CmSearch(r) ==
    /\ cm_pc[r] = "search"
    /\ \E listed \in BOOLEAN :
          IF ~listed
          THEN /\ cm_pc' = [cm_pc EXCEPT ![r] = "failed"]
               /\ cm_id' = cm_id
          ELSE IF cm_comments = {}
          THEN /\ cm_pc' = [cm_pc EXCEPT ![r] = "create"]
               /\ cm_id' = cm_id
          ELSE /\ cm_pc' = [cm_pc EXCEPT ![r] = "update"]
               /\ cm_id' = [cm_id EXCEPT ![r] = FirstMarked(cm_comments)]
    /\ UNCHANGED <<cm_comments, cm_next, cm_persisted, cm_ret, cm_calls, cm_deleted,
                   cm_seen, CmRest>>

\* how GitHub may answer the update of comment id once _retry has given up
UpdateReplies(id) ==
    IF id \in cm_comments THEN {"ok", "CONFLICT", "UNKNOWN"} ELSE {"NOT_FOUND", "UNKNOWN"}

\* lines 222-226: after an update failure the code falls through to create
AfterUpdateError == "create"

\* lines 208-226: the update of the existing comment and what follows a failure
CmUpdate(r) ==
    /\ cm_pc[r] = "update"
    /\ \E reply \in UpdateReplies(cm_id[r]) :
          /\ cm_pc' = [cm_pc EXCEPT ![r] =
                CASE reply = "ok" -> "returned"
                  [] reply = "CONFLICT" -> "relist"
                  [] reply = "NOT_FOUND" -> "create"
                  [] OTHER -> AfterUpdateError]
          /\ cm_ret' = [cm_ret EXCEPT ![r] =
                IF reply = "ok" THEN <<[id |-> cm_id[r], created |-> FALSE]>> ELSE <<>>]
          /\ cm_seen' = [cm_seen EXCEPT !.update_failed = @ \/ reply = "UNKNOWN"]
    /\ UNCHANGED <<cm_comments, cm_next, cm_persisted, cm_id, cm_calls, cm_deleted, CmRest>>

\* lines 214-221: after a CONFLICT, the list again and one more update
CmRelist(r) ==
    /\ cm_pc[r] = "relist"
    /\ \E listed \in BOOLEAN :
          IF ~listed
          THEN /\ cm_pc' = [cm_pc EXCEPT ![r] = "failed"]
               /\ cm_id' = cm_id
          ELSE IF cm_comments = {}
          THEN /\ cm_pc' = [cm_pc EXCEPT ![r] = "create"]
               /\ cm_id' = cm_id
          ELSE /\ cm_pc' = [cm_pc EXCEPT ![r] = "update2"]
               /\ cm_id' = [cm_id EXCEPT ![r] = FirstMarked(cm_comments)]
    /\ UNCHANGED <<cm_comments, cm_next, cm_persisted, cm_ret, cm_calls, cm_deleted,
                   cm_seen, CmRest>>

\* lines 219-220: the second update; its failure leaves the call
CmUpdateAgain(r) ==
    /\ cm_pc[r] = "update2"
    /\ \E reply \in UpdateReplies(cm_id[r]) :
          /\ cm_pc' = [cm_pc EXCEPT ![r] = IF reply = "ok" THEN "returned" ELSE "failed"]
          /\ cm_ret' = [cm_ret EXCEPT ![r] =
                IF reply = "ok" THEN <<[id |-> cm_id[r], created |-> FALSE]>> ELSE <<>>]
    /\ UNCHANGED <<cm_comments, cm_next, cm_persisted, cm_id, cm_calls, cm_deleted,
                   cm_seen, CmRest>>

\* lines 222-229: the create request
CmCreate(r) ==
    /\ cm_pc[r] = "create"
    /\ \E created \in BOOLEAN :
          IF created
          THEN /\ cm_comments' = cm_comments \cup {cm_next}
               /\ cm_next' = cm_next + 1
               /\ cm_ret' = [cm_ret EXCEPT ![r] = <<[id |-> cm_next, created |-> TRUE]>>]
               /\ cm_pc' = [cm_pc EXCEPT ![r] = "returned"]
          ELSE /\ cm_pc' = [cm_pc EXCEPT ![r] = "failed"]
               /\ UNCHANGED <<cm_comments, cm_next, cm_ret>>
    /\ UNCHANGED <<cm_persisted, cm_id, cm_calls, cm_deleted, cm_seen, CmRest>>

\* release_notes_agent.py:427: save_comment_id(key, cid)
CmSave(r) ==
    /\ cm_pc[r] = "returned"
    /\ cm_persisted' = cm_ret[r][1].id
    /\ cm_pc' = [cm_pc EXCEPT ![r] = "idle"]
    /\ UNCHANGED <<cm_comments, cm_next, cm_id, cm_ret, cm_calls, cm_deleted, cm_seen, CmRest>>

\* a user deletes a comment of the PR
CmDelete ==
    /\ cm_deleted < MaxDeletes
    /\ \E c \in cm_comments : cm_comments' = cm_comments \ {c}
    /\ cm_deleted' = cm_deleted + 1
    /\ UNCHANGED <<cm_next, cm_persisted, cm_pc, cm_id, cm_ret, cm_calls, cm_seen, CmRest>>

CmNext ==
    \/ \E r \in AgentRuns : CmStart(r)
    \/ \E r \in AgentRuns : CmFindPersisted(r)
    \/ \E r \in AgentRuns : CmSearch(r)
    \/ \E r \in AgentRuns : CmUpdate(r)
    \/ \E r \in AgentRuns : CmRelist(r)
    \/ \E r \in AgentRuns : CmUpdateAgain(r)
    \/ \E r \in AgentRuns : CmCreate(r)
    \/ \E r \in AgentRuns : CmSave(r)
    \/ CmDelete

SpecComment == CmInit /\ [][CmNext]_vars

\* C30: after any sequence of upsert_preview_comment calls for one PR and
\* key, failed updates and concurrent runs included, at most one comment
\* with the key's markers exists on the PR; a call creates a comment only
\* when no marked comment exists.
C30_SinglePreviewComment ==
    [][ /\ Cardinality(cm_comments') <= 1
        /\ (cm_comments' \ cm_comments # {}) => cm_comments = {}
      ]_vars

\* the same while no update has failed with an error other than CONFLICT
\* and NOT_FOUND and no two calls have overlapped
C30_OneRunNoUpdateError ==
    [][ (~cm_seen'.update_failed /\ ~cm_seen'.overlapped) =>
           /\ Cardinality(cm_comments') <= 1
           /\ (cm_comments' \ cm_comments # {}) => cm_comments = {}
      ]_vars

(***************************************************************************)
(* SpecSaveRace: two processes saving the state of one breaker name,       *)
(* rate-limit key or comment-id key.  Each save opens <state>.tmp for      *)
(* writing, writes and fsyncs its body, and renames the temp name onto the *)
(* state file; both processes use the same temp name.                      *)
(***************************************************************************)
MaxSaves == 2           \* saves of one writer in one behaviour

Writers == {"p", "q"}

PreviousContent == "old"

\* the body of the k-th save of writer w; the bodies differ in length
BodyOf(w, k) == IF w = "p" THEN "p" \o ToString(k) \o "-long" ELSE "q" \o ToString(k)

CompleteBodies == {BodyOf(w, k) : w \in Writers, k \in 1..MaxSaves}

\* a write of text at offset 0 of a file that holds content
WriteAtStart(content, text) ==
    IF Len(text) >= Len(content) THEN text
    ELSE text \o SubSeq(content, Len(text) + 1, Len(content))

SvInit ==
    /\ SvAlone
    /\ sv_inodes = <<PreviousContent>>
    /\ sv_tmp = 0
    /\ sv_state \in {0, 1}
    /\ sv_pc = [w \in Writers |-> [at |-> "idle", n |-> 0]]
    /\ sv_fd = [w \in Writers |-> 0]
    /\ sv_read = None

\* open(tmp, "w"): the temp file is created, or truncated if it is there
SvOpen(w) ==
    /\ sv_pc[w].at \in {"idle", "raised"}
    /\ sv_pc[w].n < MaxSaves
    /\ IF sv_tmp = 0
       THEN /\ sv_inodes' = Append(sv_inodes, "")
            /\ sv_tmp' = Len(sv_inodes) + 1
            /\ sv_fd' = [sv_fd EXCEPT ![w] = Len(sv_inodes) + 1]
       ELSE /\ sv_inodes' = [sv_inodes EXCEPT ![sv_tmp] = ""]
            /\ sv_tmp' = sv_tmp
            /\ sv_fd' = [sv_fd EXCEPT ![w] = sv_tmp]
    /\ sv_pc' = [sv_pc EXCEPT ![w] = [at |-> "opened", n |-> @.n + 1]]
    /\ UNCHANGED <<sv_state, sv_read, SvRest>>

\* f.write(body); f.flush(); os.fsync(f.fileno()), and the close of the file
SvWrite(w) ==
    /\ sv_pc[w].at = "opened"
    /\ sv_inodes' = [sv_inodes EXCEPT ![sv_fd[w]] = WriteAtStart(@, BodyOf(w, sv_pc[w].n))]
    /\ sv_pc' = [sv_pc EXCEPT ![w].at = "written"]
    /\ sv_fd' = [sv_fd EXCEPT ![w] = 0]
    /\ UNCHANGED <<sv_tmp, sv_state, sv_read, SvRest>>

\* os.replace(tmp, p): FileNotFoundError when the temp name is gone
SvReplace(w) ==
    /\ sv_pc[w].at = "written"
    /\ IF sv_tmp = 0
       THEN /\ sv_pc' = [sv_pc EXCEPT ![w].at = "raised"]
            /\ UNCHANGED <<sv_tmp, sv_state>>
       ELSE /\ sv_state' = sv_tmp
            /\ sv_tmp' = 0
            /\ sv_pc' = [sv_pc EXCEPT ![w].at = "idle"]
    /\ UNCHANGED <<sv_inodes, sv_fd, sv_read, SvRest>>

\* a reader: p.exists() and p.read_text()
SvRead ==
    /\ sv_read' = IF sv_state = 0 THEN "missing" ELSE sv_inodes[sv_state]
    /\ UNCHANGED <<sv_inodes, sv_tmp, sv_state, sv_pc, sv_fd, SvRest>>

SvNext ==
    \/ \E w \in Writers : SvOpen(w)
    \/ \E w \in Writers : SvWrite(w)
    \/ \E w \in Writers : SvReplace(w)
    \/ SvRead

SpecSaveRace == SvInit /\ [][SvNext]_vars

\* C31: when two processes save the state of one name concurrently, both
\* saves complete without raising, and every reader during and after the
\* saves sees the complete content of one of the saves or the previous
\* content, never an empty or partially written file.
C31_RacingSavesAreSafe ==
    /\ \A w \in Writers : sv_pc[w].at # "raised"
    /\ sv_read \in CompleteBodies \cup {None, "missing", PreviousContent}

\* the same while only one process has saved
C31_OneWriter ==
    (\E w \in Writers : sv_pc[w].n = 0) =>
        /\ \A w \in Writers : sv_pc[w].at # "raised"
        /\ sv_read \in CompleteBodies \cup {None, "missing", PreviousContent}

\* the text attached to a processed file: the trimmed patch, else the summary
AttachedText(pf) == IF pf.patch_trimmed # None THEN pf.patch_trimmed ELSE pf.summary

\* n is the least number of tokens of c characters each that hold len characters
IsCeilOf(n, len, c) == n * c >= len /\ (n = 0 \/ (n - 1) * c < len)

\* the files of the returned chunks
ReturnedFiles ==
    UNION {{Res.chunks[i].files[j] : j \in 1..Len(Res.chunks[i].files)} :
              i \in 1..Len(Res.chunks)}

\* C32: in every returned ProcessedDiff each file's tokens_est is
\* ceil(len(text) / chars_per_token) of the text attached to it, the trimmed
\* patch when it has one and the summary otherwise; at files_only no file has
\* a trimmed patch, so every tokens_est is that of the summary.
C32_TokensFollowAttachedText ==
    Returned =>
        /\ \A pf \in ReturnedFiles :
              IsCeilOf(pf.tokens_est, Len(AttachedText(pf)), dcfg.token_chars_per_token)
        /\ Res.degradation = "files_only" =>
              \A pf \in ReturnedFiles :
                 /\ pf.patch_trimmed = None
                 /\ IsCeilOf(pf.tokens_est, Len(pf.summary), dcfg.token_chars_per_token)

\* a files_only result with a file whose patch needed another estimate, and
\* a full result with a trimmed patch
C32_Witness ==
    /\ Returned
    /\ prev_result # <<>>
    /\ Res.degradation = "files_only"
    /\ \E i \in 1..Len(bundle.files) :
          LET pf == ToProcessedFile(bundle.files[i]) IN
          /\ pf.patch_trimmed # None
          /\ pf.tokens_est # EstimateTokens(pf.summary)
          /\ DropPatch(pf) \in ReturnedFiles

\* the indices of the hunk headers of lines, ascending
HunkStarts(lines) ==
    LET hs == {i \in 1..Len(lines) : StartsWith(lines[i], "@@")} IN
    [k \in 1..Cardinality(hs) |->
        CHOOSE i \in hs : Cardinality({j \in hs : j < i}) = k - 1]

\* the hunk bodies of lines, in order
HunkBodies(lines) ==
    LET st == HunkStarts(lines) IN
    [k \in 1..Len(st) |->
        SubSeq(lines, st[k] + 1,
               IF k < Len(st) THEN st[k + 1] - 1 ELSE Len(lines))]

\* the lines of block whose index is in idxs, in order
LinesAt(block, idxs) ==
    LET kept == {i \in 1..Len(block) : i \in idxs} IN
    [k \in 1..Cardinality(kept) |->
        block[CHOOSE i \in kept : Cardinality({j \in kept : j < i}) = k - 1]]

\* the indices of block within K positions of an index of changed
WindowOf(block, changed, K) ==
    {i \in 1..Len(block) : \E j \in changed : i - j <= K /\ j - i <= K}

\* the added and removed lines of a hunk body: those marked + or -
MarkedIdx(block) ==
    {i \in 1..Len(block) : StartsWith(block[i], "+") \/ StartsWith(block[i], "-")}

\* C33: for a hunk that contains at least one changed line, the trimmed hunk
\* consists of exactly the lines of the hunk body within K positions of some
\* changed line, in original order and without duplicates; lines farther away
\* are dropped and overlapping windows keep their union.
C33_ContextWindow ==
    t_pc = "done" =>
        LET before == HunkBodies(SplitLines(t_patch))
            after == HunkBodies(TrimmedLines)
        IN /\ Len(after) = Len(before)
           /\ \A k \in 1..Len(before) :
                 MarkedIdx(before[k]) # {} =>
                    after[k] = LinesAt(before[k], WindowOf(before[k], MarkedIdx(before[k]), t_K))

\* the same with the changed lines taken as _trim_hunk_block takes them
C33_WindowOfCountedChanges ==
    t_pc = "done" =>
        LET before == HunkBodies(SplitLines(t_patch))
            after == HunkBodies(TrimmedLines)
        IN /\ Len(after) = Len(before)
           /\ \A k \in 1..Len(before) :
                 ChangeIdx(before[k]) # {} =>
                    after[k] = LinesAt(before[k], WindowOf(before[k], ChangeIdx(before[k]), t_K))

\* a trimmed hunk that lost a far context line and kept the union of two windows
C33_FarLineDropped ==
    /\ t_pc = "done"
    /\ \E k \in 1..Len(HunkBodies(SplitLines(t_patch))) :
          LET b == HunkBodies(SplitLines(t_patch))[k] IN
          /\ Cardinality(ChangeIdx(b)) >= 1
          /\ Len(HunkBodies(TrimmedLines)[k]) < Len(b)

\* the unified diff was fetched and is larger than the byte cap
OversizedUnified == UnifiedFetched /\ UnifiedBytes > MAX_DIFF_BYTES

\* C34: when the fetched unified diff exceeds the 10 MB cap, fetch() proceeds
\* but attaches no patch taken from that diff: every file whose per-file
\* patch was omitted stays is_binary = true with patch = None.
C34_NoPatchFromOversizedDiff ==
    /\ (FetchDone /\ OversizedUnified) => FetchReturned
    /\ (FetchReturned /\ OversizedUnified) =>
          /\ Len(Bundle.files) = Len(KeptRecords)
          /\ \A i \in 1..Len(Bundle.files) :
                KeptRecords[i].patch \in {None, ""} =>
                    Bundle.files[i].is_binary /\ Bundle.files[i].patch = None

\* with an oversized unified diff fetch() returns a truncated bundle in which
\* the supplied patches are kept and a file the diff has no section for
\* stays binary
C34_ProceedsTruncated ==
    /\ (FetchDone /\ OversizedUnified) => FetchReturned
    /\ (FetchReturned /\ OversizedUnified) =>
          /\ Bundle.truncated
          /\ Len(Bundle.files) = Len(KeptRecords)
          /\ \A i \in 1..Len(Bundle.files) :
                LET file == Bundle.files[i]
                    record == KeptRecords[i]
                IN /\ record.patch \notin {None, ""} => file.patch = record.patch
                   /\ (record.patch = None /\ ~MapHas(f_umap, record.filename)) =>
                         file.is_binary /\ file.patch = None

\* the processed files as _to_processed_file made them, before any step
ConvertedFiles == [i \in 1..Len(bundle.files) |-> ToProcessedFile(bundle.files[i])]

\* the chunks of degradation full, and those the files_only step builds
ChunksAtFull == BuildChunks(GroupAndOrder(ConvertedFiles))
ChunksAtFilesOnly ==
    BuildChunks(GroupAndOrder([i \in 1..Len(ConvertedFiles) |-> DropPatch(ConvertedFiles[i])]))

\* C35: for every file the tokens_est recomputed from its summary at the
\* files_only step is <= the tokens_est it had with its trimmed patch, so
\* total_tokens_est and the number of chunks never increase when process()
\* moves from full to files_only.
C35_FilesOnlySaysLess ==
    (d_pc \in {"checked1", "checked2", "done"} /\ degradation # "full") =>
        /\ \A i \in 1..Len(ConvertedFiles) :
              DropPatch(ConvertedFiles[i]).tokens_est <= ConvertedFiles[i].tokens_est
        /\ SumTokens(ChunksAtFilesOnly) <= SumTokens(ChunksAtFull)
        /\ Len(ChunksAtFilesOnly) <= Len(ChunksAtFull)


\* the totals and the chunk count when no file's summary is longer than its
\* trimmed patch
C35_WhenSummariesAreShorter ==
    (/\ d_pc \in {"checked1", "checked2", "done"}
     /\ degradation # "full"
     /\ \A i \in 1..Len(ConvertedFiles) :
           ConvertedFiles[i].patch_trimmed # None =>
              Len(ConvertedFiles[i].summary) <= Len(ConvertedFiles[i].patch_trimmed)) =>
        /\ \A i \in 1..Len(ConvertedFiles) :
              DropPatch(ConvertedFiles[i]).tokens_est <= ConvertedFiles[i].tokens_est
        /\ SumTokens(ChunksAtFilesOnly) <= SumTokens(ChunksAtFull)
        /\ Len(ChunksAtFilesOnly) <= Len(ChunksAtFull)

\* a files_only step whose rebuilt chunks are more than those of full
C35_MoreChunks ==
    /\ d_pc = "checked1" /\ degradation = "files_only"
    /\ Len(ChunksAtFilesOnly) > Len(ChunksAtFull)

\* a files_only step taken with every summary no longer than the patch
C35_ShorterSummaries ==
    /\ d_pc = "checked1" /\ degradation = "files_only"
    /\ \E i \in 1..Len(ConvertedFiles) : ConvertedFiles[i].patch_trimmed # None
    /\ \A i \in 1..Len(ConvertedFiles) :
           ConvertedFiles[i].patch_trimmed # None =>
              Len(ConvertedFiles[i].summary) <= Len(ConvertedFiles[i].patch_trimmed)

\* ceil(n / d) for d >= 1
CeilDiv(n, d) == (n + d - 1) \div d

\* the bundle holds more files than max_chunks chunks of max_files_per_chunk
TooManyFiles == Len(bundle.files) > dcfg.max_files_per_chunk * dcfg.max_chunks

\* C36: if the bundle contains more than max_files_per_chunk x max_chunks
\* files, process() always ends at degradation commits_only with a single
\* empty chunk, whatever the token sizes of the files: neither chunking can
\* produce fewer than ceil(files / max_files_per_chunk) chunks.
C36_TooManyFilesEndsAtCommitsOnly ==
    /\ (Returned /\ TooManyFiles) =>
          /\ Res.degradation = "commits_only"
          /\ Len(Res.chunks) = 1
          /\ Res.chunks[1].files = <<>>
          /\ Res.chunks[1].files_count = 0
    /\ (d_pc \in {"chunked", "checked1"}) =>
          Len(chunks) >= CeilDiv(Len(bundle.files), dcfg.max_files_per_chunk)

\* a bundle of three files for one chunk of two, returned at commits_only
C36_Witness ==
    /\ Returned
    /\ TooManyFiles
    /\ dcfg.max_files_per_chunk = 2
    /\ Res.degradation = "commits_only"
    /\ Res.degradation_reason = "chunks"

RECURSIVE SumFilesCount(_)
SumFilesCount(chs) ==
    IF Len(chs) = 0 THEN 0 ELSE Head(chs).files_count + SumFilesCount(Tail(chs))

\* the places <<i, j>> of the returned chunks that hold the file of a path
PlacesOf(path) ==
    {pl \in (1..Len(Res.chunks)) \X (1..MaxFiles) :
        /\ pl[2] <= Len(Res.chunks[pl[1]].files)
        /\ Res.chunks[pl[1]].files[pl[2]].path = path}

\* C37: no file is lost or duplicated by chunking: at full and files_only
\* every file of bundle.files appears in exactly one chunk, the chunks'
\* files_count values sum to total_files = len(bundle.files) and
\* total_tokens_est is the sum of the files' tokens_est; at commits_only
\* total_files is still len(bundle.files) although no chunk holds a file.
C37_EveryFileInOneChunk ==
    Returned =>
        /\ Res.total_files = Len(bundle.files)
        /\ Res.degradation \in {"full", "files_only"} =>
              /\ \A i \in 1..Len(bundle.files) :
                    Cardinality(PlacesOf(bundle.files[i].filename)) = 1
              /\ \A i \in 1..Len(Res.chunks) :
                    Res.chunks[i].files_count = Len(Res.chunks[i].files)
              /\ SumFilesCount(Res.chunks) = Res.total_files
              /\ Res.total_tokens_est = SumFileTokens(processed_files)
              /\ \A i \in 1..Len(processed_files) : processed_files[i] \in ReturnedFiles
        /\ Res.degradation = "commits_only" =>
              \A i \in 1..Len(Res.chunks) : Res.chunks[i].files = <<>>

\* three files returned in two chunks, twice
C37_Witness ==
    /\ Returned
    /\ Len(bundle.files) = 3
    /\ Res.degradation \in {"full", "files_only"}
    /\ Len(Res.chunks) = 2
    /\ prev_result # <<>>
    /\ prev_result[1].total_files = 3

\* the breaker is HALF_OPEN and has handed out all its probes
ProbesExhausted ==
    cb.state = "HALF_OPEN" /\ cb.half_open_calls = cbcfg.half_open_max_calls

\* C38: once the breaker is HALF_OPEN with half_open_calls equal to
\* half_open_max_calls, every allow() returns false however much time passes,
\* and the persisted state changes only by a record_success() or a
\* record_failure(): while neither is called the breaker stays as it is.
C38_ExhaustedHalfOpenDenies ==
    [][ ProbesExhausted =>
           /\ Allow => (cb_call'.ret = "False" /\ cb' = cb)
           /\ cb' # cb => cb_call'.op \in {"record_success", "record_failure"}
           /\ (Allow \/ Tick) => ProbesExhausted'
      ]_vars

\* an allow() denied by the exhausted breaker long after the recovery time
C38_Witness ==
    /\ ProbesExhausted
    /\ cbcfg.half_open_max_calls >= 2
    /\ cb_call = [op |-> "allow", ret |-> "False", from |-> "HALF_OPEN"]
    /\ now - cb.ts_open >= 2 * cbcfg.recovery_time_s

(***************************************************************************)
(* SpecGenRuns: generate commands run one after another on the cache entry *)
(* of one key; each run has its own flags and its own model output.        *)
(***************************************************************************)
MaxGenRuns == 3         \* generate commands started in one behaviour
MaxDrafts == 2          \* distinct model outputs for the same pull request

RunFlags == GenFlags \cup {"json", "final"}

\* the normalized drafts: the identity of the pull request, or none, and a body
RunDrafts ==
    {[repo |-> "o/r", pr_number |-> <<7>>, head_sha |-> h, body |-> d] :
        h \in {None, "c0ffee1"}, d \in 1..MaxDrafts}

\* json.dumps(draft_norm.model_dump(), ensure_ascii=False)
JsonTextOf(draft) == "json-" \o ToString(draft.body)

\* render_markdown(draft_norm, mode="final" if args.final else "preview")
RenderMarkdown(draft, args) ==
    (IF "final" \in args THEN "final-" ELSE "preview-") \o ToString(draft.body)

\* the lookup guard with the flag inverted
LookupWanted_Inverted(key, args) == HasKey(key) /\ "no_cache" \in args

\* line 393: if key and not args.no_cache
LookupWanted(key, args) == HasKey(key) /\ "no_cache" \notin args

\* lines 387-390, 397-400: print(cjson) if args.json else print(cmd)
PrintCached(cached, args) == IF "json" \in args THEN cached[1] ELSE cached[2]

\* cache.get(key) on the files of the key: <<>> for None
CacheGetOf(files) == IF IsHit(files) THEN <<files.json, files.md>> ELSE <<>>

CacheAfterGet(files) == IF IsHit(files) THEN files ELSE InvalidateOf(files)

NoRun == [args |-> {}, draft |-> <<>>, key |-> <<>>, pc |-> "idle", ops |-> {},
          out |-> None, cached |-> <<>>]

GcInit ==
    /\ gc_fs = NoEntry
    /\ gc_run = NoRun
    /\ gc_runs = 0
    /\ GcAlone

\* a generate command reaches the normalized draft
GcStart(args, draft) ==
    /\ gc_run.pc \in {"idle", "exit"}
    /\ gc_runs < MaxGenRuns
    /\ gc_runs' = gc_runs + 1
    /\ gc_run' = [NoRun EXCEPT !.args = args, !.draft = <<draft>>, !.pc = "key"]
    /\ UNCHANGED <<gc_fs, GcRest>>

\* lines 375-380: key = idempotency_key(draft_norm), None when it raises
GcKey ==
    /\ gc_run.pc = "key"
    /\ gc_run' = [gc_run EXCEPT
                     !.key = idempotency_key(gc_run.draft[1]),
                     !.pc = IF "cache_only" \in gc_run.args THEN "cache_only" ELSE "lookup"]
    /\ UNCHANGED <<gc_fs, gc_runs, GcRest>>

\* lines 381-392: --cache-only prints the cached pair or fails with a miss
GcCacheOnly ==
    /\ gc_run.pc = "cache_only"
    /\ IF HasKey(gc_run.key)
       THEN LET cached == CacheGetOf(gc_fs) IN
            /\ gc_fs' = CacheAfterGet(gc_fs)
            /\ gc_run' = [gc_run EXCEPT
                  !.ops = @ \cup {"get"},
                  !.cached = cached,
                  !.out = IF cached # <<>> THEN PrintCached(cached, gc_run.args)
                          ELSE "Error: cache miss (NOT_FOUND)",
                  !.pc = "exit"]
       ELSE /\ gc_fs' = gc_fs
            /\ gc_run' = [gc_run EXCEPT !.out = "Error: cache miss (NOT_FOUND)",
                                        !.pc = "exit"]
    /\ UNCHANGED <<gc_runs, GcRest>>

\* lines 393-401: the cache is consulted; a hit is printed and ends the run
GcLookup ==
    /\ gc_run.pc = "lookup"
    /\ IF LookupWanted(gc_run.key, gc_run.args)
       THEN LET cached == CacheGetOf(gc_fs) IN
            /\ gc_fs' = CacheAfterGet(gc_fs)
            /\ gc_run' = [gc_run EXCEPT
                  !.ops = @ \cup {"get"},
                  !.cached = cached,
                  !.out = IF cached # <<>> THEN PrintCached(cached, gc_run.args) ELSE None,
                  !.pc = IF cached # <<>> THEN "exit" ELSE "store"]
       ELSE /\ gc_fs' = gc_fs
            /\ gc_run' = [gc_run EXCEPT !.pc = "store"]
    /\ UNCHANGED <<gc_runs, GcRest>>

\* lines 402-408: render, dump, and cache.put under the key
GcStore ==
    /\ gc_run.pc = "store"
    /\ IF HasKey(gc_run.key)
       THEN /\ gc_fs' = [json |-> JsonTextOf(gc_run.draft[1]),
                         md |-> RenderMarkdown(gc_run.draft[1], gc_run.args)]
            /\ gc_run' = [gc_run EXCEPT !.ops = @ \cup {"put"}, !.pc = "comment"]
       ELSE /\ gc_fs' = gc_fs
            /\ gc_run' = [gc_run EXCEPT !.pc = "comment"]
    /\ UNCHANGED <<gc_runs, GcRest>>

\* lines 410-438: the preview comment upsert, then the output
GcComment ==
    /\ gc_run.pc = "comment"
    /\ gc_run' = [gc_run EXCEPT
          !.ops = IF /\ "post_comment" \in gc_run.args
                     /\ "cache_only" \notin gc_run.args
                     /\ HasKey(gc_run.key)
                     /\ "skip_gh_auth" \notin gc_run.args
                     /\ "pr_context" \in gc_run.args
                  THEN @ \cup {"upsert"} ELSE @,
          !.out = IF "json" \in gc_run.args THEN JsonTextOf(gc_run.draft[1])
                  ELSE RenderMarkdown(gc_run.draft[1], gc_run.args),
          !.pc = "exit"]
    /\ UNCHANGED <<gc_fs, gc_runs, GcRest>>

GcNext ==
    \/ \E args \in SUBSET RunFlags, draft \in RunDrafts : GcStart(args, draft)
    \/ GcKey
    \/ GcCacheOnly
    \/ GcLookup
    \/ GcStore
    \/ GcComment

SpecGenRuns == GcInit /\ [][GcNext]_vars

\* the running command found a pair at its lookup without --no-cache
RunHit ==
    /\ gc_run.pc = "exit"
    /\ "cache_only" \notin gc_run.args
    /\ "no_cache" \notin gc_run.args
    /\ gc_run.cached # <<>>

\* C39: when generate runs without --no-cache and the cache holds a pair for
\* the derived key, the run prints the stored pair, performs no put and posts
\* no comment, and leaves the stored pair as it is; the stored pair of a key
\* is replaced only by a run with --no-cache.
C39_HitIsReadOnly ==
    [][ /\ (GcLookup /\ LookupWanted(gc_run.key, gc_run.args) /\ IsHit(gc_fs)) =>
              /\ gc_run'.pc = "exit"
              /\ gc_run'.out = (IF "json" \in gc_run.args THEN gc_fs.json ELSE gc_fs.md)
              /\ gc_run'.ops = {"get"}
              /\ gc_fs' = gc_fs
        /\ RunHit => (gc_fs' = gc_fs /\ (gc_run'.pc # "key" => gc_run' = gc_run))
        /\ (IsHit(gc_fs) /\ gc_fs' # gc_fs) =>
              (GcStore /\ "no_cache" \in gc_run.args /\ "put" \in gc_run'.ops)
      ]_vars

\* the third run prints the pair the first run stored, though its own draft
\* differs and a comment was asked for
C39_Witness ==
    /\ RunHit
    /\ gc_runs = 3
    /\ gc_run.ops = {"get"}
    /\ {"post_comment", "pr_context"} \subseteq gc_run.args
    /\ gc_run.draft[1].body = 2
    /\ gc_fs = [json |-> "json-1", md |-> "preview-1"]
    /\ gc_run.out = "preview-1"

====
